---- MODULE Spec2Model ----
(***************************************************************************)
(* Distributed query execution core of cubestore                           *)
(* (rust/cubestore/src/queryplanner/query_executor.rs): worker assignment  *)
(* of ClusterSendExec, the per-worker execute call and the batch           *)
(* regrouper of the worker executor, the batch codec, the partition reader *)
(* assembled by CubeTable::async_scan and the row conversion of            *)
(* batch_to_dataframe.                                                     *)
(***************************************************************************)
EXTENDS Integers, Sequences, FiniteSets, TLC

\* ---------------------------------------------------------------- bounds
MaxPart == 3
MaxMulti == 3
MaxKey == 2
MaxUnions == 2
MaxWorkers == 2
MaxFilters == 3
MaxCalls == 2
MaxBatches == 2
MaxRows == 7
MaxBatchRows == 4
MaxScanParts == 2
MaxFileRows == 3
MaxFrameBatches == 2
MaxFrameRows == 1
MaxCopies == 2
MaxChar == 256

\* Option::None of an Option<u64> / Option<Row>; ids and keys are >= 0.
None == -1

VARIABLES
  \* distribute_to_workers: inputs, control position, intermediate results
  config, tree, snapshots, pc, logical, nodes, partitions, partitions2,
  \* one call of issue_filters: argument, control position, result
  ps, psPc, psFilters,
  \* ClusterSendExec::execute: the use_streaming field, the execute calls
  \* in progress and the remote calls each has issued
  useStreaming, calls, sent,
  \* execute_worker_plan: the worker's physical plan, control position,
  \* the plan collected and its result, the loop state of regroup_batches
  \* (input, batch index, row cursor, output r) and the returned result
  physicalPlan, wpc, collected, batches, batchIdx, row, regrouped, workerResult,
  \* SerializedRecordBatchStream: the arguments of write, the blobs, control
  \* position and the results of read, blob by blob
  codecSchema, codecIn, blobs, cpc, decoded,
  \* CubeTable::async_scan: the table (self), the stored rows behind its
  \* local paths, the projection argument, control position, the returned
  \* plan or failure, the rows collected from the returned plan, and the
  \* hints its CubeTableExec reported
  cubeTable, storage, scanProjection, spc, scanResult, scanRows, scanHints,
  \* batch_to_dataframe: the batches argument, control position, the result
  frameIn, fpc, frame,
  \* ClusterSendExec::with_changed_schema / with_new_children: the operators
  \* that exist, the calls made on them and whether a call panicked
  sendExecs, sendCalls, sendPc,
  \* MySqlDialectWithBackTicks: the character asked about, the method
  \* called and what it returned
  dialectCh, dialectMethod, dialectAnswer

planVars == <<config, tree, snapshots, pc, logical, nodes, partitions, partitions2>>
filterVars == <<ps, psPc, psFilters>>
execVars == <<useStreaming, calls, sent>>
workerVars == <<physicalPlan, wpc, collected, batches, batchIdx, row, regrouped, workerResult>>
codecVars == <<codecSchema, codecIn, blobs, cpc, decoded>>
\* The state outside query planning and execution.
scanVars == <<cubeTable, storage, scanProjection, spc, scanResult, scanRows, scanHints>>
frameVars == <<frameIn, fpc, frame>>
sendVars == <<sendExecs, sendCalls, sendPc>>
dialectVars == <<dialectCh, dialectMethod, dialectAnswer>>
dataVars == <<codecVars, scanVars, frameVars, sendVars, dialectVars>>
vars == <<planVars, filterVars, execVars, workerVars, dataVars>>

\* ------------------------------------------------------- generic helpers
Range(s) == {s[i] : i \in DOMAIN s}

RECURSIVE SetToSeq(_)
SetToSeq(S) ==
  IF S = {} THEN <<>>
  ELSE LET m == CHOOSE x \in S : \A y \in S : x <= y
       IN <<m>> \o SetToSeq(S \ {m})

RECURSIVE Flatten(_)
Flatten(ss) == IF ss = <<>> THEN <<>> ELSE Head(ss) \o Flatten(Tail(ss))

\* All orders in which a hash map with key set S can be iterated.
IterationOrders(S) ==
  {f \in [1..Cardinality(S) -> S] : \A i, j \in DOMAIN f : f[i] = f[j] => i = j}

\* String comparison (Ord for String): lexicographic on the characters.
RECURSIVE StrLess(_, _)
StrLess(a, b) ==
  IF b = <<>> THEN FALSE
  ELSE IF a = <<>> THEN TRUE
  ELSE IF Head(a) # Head(b) THEN Head(a) < Head(b)
  ELSE StrLess(Tail(a), Tail(b))

\* ------------------------------------------------------------ data model
\* RowRange::default(): unbounded on both ends.
DefaultRange == [start |-> None, end |-> None]

\* RowRange::matches: half-open [start, end), a missing bound is unbounded.
InRange(k, r) ==
  /\ (r.start = None \/ r.start <= k)
  /\ (r.end = None \/ k < r.end)

Keys == 0..MaxKey

\* Names of the workers the config may list, in the order the config lists
\* them ("w2", "w1", "w10", ... as character codes).
WorkerName(i) == IF i % 2 = 1 THEN <<2, i>> ELSE <<1, i>>
Configs == {[workers |-> [i \in 1..n |-> WorkerName(i)]] : n \in 1..MaxWorkers}

\* hash of the id tuple
RECURSIVE HashIds(_, _)
HashIds(ids, h) ==
  IF ids = <<>> THEN h ELSE HashIds(Tail(ids), (h * 31 + Head(ids)) % 65536)

\* cluster::pick_worker_by_ids: hash of the ids mod worker count.
PickWorkerByIds(c, ids) ==
  c.workers[(HashIds(ids, 7) % Len(c.workers)) + 1]

\* cluster::pick_worker_by_partitions: hash over the ordered partition ids.
PickWorkerByPartitions(c, ps0) ==
  PickWorkerByIds(c, [i \in DOMAIN ps0 |-> ps0[i].id])

\* ------------------------------------------------- logical_partitions
\* The partitions of one union in the order the loops visit them
\* (for index in union, for p in index.partitions).
UnionPartitions(union) ==
  Flatten([i \in DOMAIN union |-> union[i].partitions])

\* ordinary_partitions of one union: those without multi_partition_id.
OrdinaryPartitions(union) ==
  SelectSeq(UnionPartitions(union), LAMBDA p : p.multi = None)

\* to_multiply: the non-empty ordinary_partitions lists, in union order.
ToMultiply(snaps) ==
  SelectSeq([u \in DOMAIN snaps |-> OrdinaryPartitions(snaps[u])],
            LAMBDA l : l # <<>>)

\* multi_partitions: multi id -> its partitions in push order.
MultiPartitions(snaps) ==
  LET all == Flatten([u \in DOMAIN snaps |-> UnionPartitions(snaps[u])])
      ids == {all[i].multi : i \in DOMAIN all} \ {None}
  IN [m \in ids |-> SelectSeq(all, LAMBDA p : p.multi = m)]

\* Mutant: the assertion compiled out.
RegimeAssertion_Off(snaps) == TRUE

\* The assert! of logical_partitions.
RegimeAssertion(snaps) ==
  ToMultiply(snaps) = <<>> \/ DOMAIN MultiPartitions(snaps) = {}

\* itertools multi_cartesian_product: the last list varies fastest; an
\* empty list of lists yields nothing.
RECURSIVE ProductOf(_)
ProductOf(lists) ==
  IF Len(lists) = 1 THEN [i \in DOMAIN lists[1] |-> <<lists[1][i]>>]
  ELSE LET first == Head(lists)
           rest == ProductOf(Tail(lists))
       IN Flatten([i \in DOMAIN first |->
                     [j \in DOMAIN rest |-> <<first[i]>> \o rest[j]]])

\* Mutant: pairs the i-th elements of the lists instead of multiplying.
MultiCartesianProduct_Zip(lists) ==
  IF lists = <<>> THEN <<>>
  ELSE [i \in DOMAIN lists[1] |->
          [u \in DOMAIN lists |->
             lists[u][IF i <= Len(lists[u]) THEN i ELSE Len(lists[u])]]]

MultiCartesianProduct(lists) ==
  IF lists = <<>> THEN <<>> ELSE ProductOf(lists)

\* has_children: every id that is some node's parent.
HasChildren(t) == {t[m].parent : m \in DOMAIN t} \ {None}

\* The while-let walk up the parent chain from curr, collecting the
\* partitions multi_partitions holds for each ancestor.
RECURSIVE AncestorParts(_, _, _)
AncestorParts(curr, mp, t) ==
  IF curr = None THEN <<>>
  ELSE (IF curr \in DOMAIN mp THEN mp[curr] ELSE <<>>)
       \o AncestorParts(t[curr].parent, mp, t)

\* The map `leaves` after the first loop: the entries the loop does not
\* skip, each holding the partitions taken out of multi_partitions.
LeavesTaken(mp, t) ==
  [m \in {x \in DOMAIN mp : x \in HasChildren(t)} |-> mp[m]]

\* multi_partitions after the first loop: take() leaves an empty list.
AfterTake(mp, t) ==
  [m \in DOMAIN mp |-> IF m \in HasChildren(t) THEN <<>> ELSE mp[m]]

\* The map `leaves` after the second loop.
LeavesExtended(mp, t) ==
  [m \in DOMAIN LeavesTaken(mp, t) |->
     LeavesTaken(mp, t)[m] \o AncestorParts(t[m].parent, AfterTake(mp, t), t)]

\* distribute_multi_partitions; order is the iteration order of the final
\* loop over multi_partitions.
DistributeMultiPartitions(mp, t, order) ==
  LET rest == AfterTake(mp, t)
      kept == SelectSeq(order, LAMBDA m : m \notin HasChildren(t))
  IN [i \in DOMAIN kept |-> rest[kept[i]]]

\* ------------------------------------------------------- issue_filters
\* Mutant: an ancestor is restricted to its own key range instead of the
\* range of ps[0].
IssueFilters_OwnRange(ps0) ==
  IF ps0 = <<>> THEN <<>>
  ELSE LET multi_id == ps0[1].multi
       IN IF multi_id = None
          THEN [i \in DOMAIN ps0 |-> [id |-> ps0[i].id, range |-> DefaultRange]]
          ELSE [i \in DOMAIN ps0 |->
                  [id |-> ps0[i].id,
                   range |-> IF multi_id = ps0[i].multi THEN DefaultRange
                             ELSE [start |-> ps0[i].min, end |-> ps0[i].max]]]

IssueFilters(ps0) ==
  IF ps0 = <<>> THEN <<>>
  ELSE LET multi_id == ps0[1].multi
           filter == [start |-> ps0[1].min, end |-> ps0[1].max]
       IN IF multi_id = None
          THEN [i \in DOMAIN ps0 |-> [id |-> ps0[i].id, range |-> DefaultRange]]
          ELSE [i \in DOMAIN ps0 |->
                  [id |-> ps0[i].id,
                   range |-> IF multi_id = ps0[i].multi THEN DefaultRange
                             ELSE filter]]

\* -------------------------------------------------------- assign_nodes
\* The node chosen for one logical worker partition.
NodeOf(c, ps0) ==
  IF ps0[1].multi # None THEN PickWorkerByIds(c, <<ps0[1].multi>>)
  ELSE PickWorkerByPartitions(c, ps0)

\* Mutant: insert() instead of entry().or_default().extend(): a node keeps
\* the filters of the last logical worker partition routed to it only.
NodeMap_Overwrite(c, logic) ==
  LET names == {NodeOf(c, logic[i]) : i \in DOMAIN logic}
      last(n) == CHOOSE i \in DOMAIN logic :
                   /\ NodeOf(c, logic[i]) = n
                   /\ \A j \in DOMAIN logic : NodeOf(c, logic[j]) = n => j <= i
  IN [n \in names |-> IssueFilters(logic[last(n)])]

\* The map m after the loop: node -> concatenated filters, in input order.
NodeMap(c, logic) ==
  LET names == {NodeOf(c, logic[i]) : i \in DOMAIN logic}
  IN [n \in names |->
        Flatten([i \in DOMAIN logic |->
                   IF NodeOf(c, logic[i]) = n THEN IssueFilters(logic[i])
                   ELSE <<>>])]

\* Mutant: the final sort left out.
SortByNode_Unsorted(r) == r

\* sort_unstable_by(|l, r| l.0.cmp(&r.0)) on a list of (node, filters).
RECURSIVE SortByNode(_)
SortByNode(r) ==
  IF r = <<>> THEN <<>>
  ELSE LET i == CHOOSE i \in DOMAIN r :
                  \A j \in DOMAIN r : ~StrLess(r[j].node, r[i].node)
       IN <<r[i]>> \o SortByNode([k \in 1..(Len(r) - 1) |->
                                    IF k < i THEN r[k] ELSE r[k + 1]])

\* assign_nodes; order is the iteration order of m.into_iter().
AssignNodes(c, logic, order) ==
  LET m == NodeMap(c, logic)
  IN SortByNode([i \in DOMAIN order |->
                   [node |-> order[i], filters |-> m[order[i]]]])

\* ClusterSendExec::output_partitioning
OutputPartitioning(parts) == Len(parts)

\* ----------------------------------------------------- planning inputs
RangeBounds == {None} \cup (1..MaxKey)

\* The children of one multi-partition split its key range: ordered by id
\* they are contiguous, start at the parent's min and end at its max.
SplitsRange(t, m) ==
  LET cs == SetToSeq({c \in DOMAIN t : t[c].parent = m})
  IN cs # <<>> =>
       /\ t[cs[1]].min = t[m].min
       /\ t[cs[Len(cs)]].max = t[m].max
       /\ \A i \in 1..(Len(cs) - 1) :
            t[cs[i]].max # None /\ t[cs[i]].max = t[cs[i + 1]].min

\* The parent maps of the trees on multi ids 1..n rooted at 1.
Parents(n) ==
  {f \in [1..n -> {None} \cup (1..n)] :
     \A m \in 1..n : (m = 1) = (f[m] = None) /\ f[m] < m}

\* multi_part_subtree of the planning meta: a tree rooted at multi id 1,
\* which covers the whole key space; every node's range is non-empty.
Trees(n) ==
  UNION {
    {t \in {[m \in 1..n |-> [parent |-> f[m], min |-> lo[m], max |-> hi[m]]] :
              lo \in [1..n -> RangeBounds], hi \in [1..n -> RangeBounds]} :
       /\ \A m \in 1..n :
            /\ (t[m].min # None /\ t[m].max # None) => t[m].min < t[m].max
            /\ SplitsRange(t, m)
       /\ n >= 1 => t[1].min = None /\ t[1].max = None}
    : f \in Parents(n)}

\* Marks a partition that is not part of the query's snapshots.
Absent == None - 1

\* A partition row as the router sees it (IdRow<Partition>); a partition of
\* a multi-partition carries the multi-partition's key range.
PartitionRow(p, multi, t) ==
  [id |-> p, multi |-> multi,
   min |-> IF multi = None THEN None ELSE t[multi].min,
   max |-> IF multi = None THEN None ELSE t[multi].max]

\* The snapshots of a query: each union arm holds two index snapshots, the
\* first with the arm's even partition ids and the second with the odd ones.
Snapshots(place, arm, t) ==
  LET inArm(u, parity) ==
        SetToSeq({p \in 1..MaxPart :
                    place[p] # Absent /\ arm[p] = u /\ p % 2 = parity})
      index(u, parity) ==
        [partitions |-> [i \in DOMAIN inArm(u, parity) |->
                           PartitionRow(inArm(u, parity)[i],
                                        place[inArm(u, parity)[i]], t)]]
  IN [u \in 1..MaxUnions |-> <<index(u, 0), index(u, 1)>>]

DefaultArm == [p \in 1..MaxPart |-> ((p - 1) % MaxUnions) + 1]

InitPlan ==
  /\ config \in Configs
  /\ \E n \in 0..MaxMulti :
       /\ tree \in Trees(n)
       /\ \E place \in [1..MaxPart -> {Absent, None} \cup (1..n)] :
            \E arm \in (IF n > 0 THEN {DefaultArm}
                        ELSE [1..MaxPart -> 1..MaxUnions]) :
              snapshots = Snapshots(place, arm, tree)
  /\ pc = "new"
  /\ logical = <<>>
  /\ nodes = <<>>
  /\ partitions = <<>>
  /\ partitions2 = <<>>

\* ------------------------------------------------------------- actions
\* logical_partitions(snapshots, tree)
LogicalPartitions ==
  /\ pc = "new"
  /\ IF ~RegimeAssertion(snapshots)
     THEN /\ pc' = "panic"
          /\ UNCHANGED logical
     ELSE /\ pc' = "logical"
          /\ IF DOMAIN MultiPartitions(snapshots) # {}
             THEN \E order \in IterationOrders(DOMAIN MultiPartitions(snapshots)) :
                    logical' = DistributeMultiPartitions(
                                 MultiPartitions(snapshots), tree, order)
             ELSE logical' = MultiCartesianProduct(ToMultiply(snapshots))
  /\ UNCHANGED <<config, tree, snapshots, nodes, partitions, partitions2>>

\* assign_nodes(config, logical), the second half of distribute_to_workers
AssignNodesStep ==
  /\ pc = "logical"
  /\ nodes' = [i \in DOMAIN logical |-> NodeOf(config, logical[i])]
  /\ \E order \in IterationOrders(DOMAIN NodeMap(config, logical)) :
       partitions' = AssignNodes(config, logical, order)
  /\ pc' = "assigned"
  /\ UNCHANGED <<config, tree, snapshots, logical, partitions2>>

\* A second evaluation of assign_nodes on the same config and list (another
\* planning of the same query): its hash map may iterate differently.
AssignNodesAgain ==
  /\ pc = "assigned"
  /\ \E order \in IterationOrders(DOMAIN NodeMap(config, logical)) :
       partitions2' = AssignNodes(config, logical, order)
  /\ pc' = "reassigned"
  /\ UNCHANGED <<config, tree, snapshots, logical, nodes, partitions>>

\* No call of issue_filters on its own.
IdleFilters == ps = <<>> /\ psPc = "idle" /\ psFilters = <<>>

\* No execute call.
IdleExec == useStreaming = FALSE /\ calls = <<>> /\ sent = <<>>

\* No worker-side execution.
IdleWorker ==
  /\ physicalPlan = <<>> /\ wpc = "idle" /\ collected = "none"
  /\ batches = <<>> /\ batchIdx = 0 /\ row = 0 /\ regrouped = <<>>
  /\ workerResult = <<>>

\* No blob written or read.
IdleCodec ==
  /\ codecSchema = "" /\ codecIn = <<>> /\ blobs = <<>> /\ cpc = "idle"
  /\ decoded = <<>>

\* No scan.
IdleScan ==
  /\ cubeTable = <<>> /\ storage = <<>> /\ scanProjection = <<>>
  /\ spc = "idle" /\ scanResult = <<>> /\ scanRows = <<>> /\ scanHints = <<>>

\* No conversion.
IdleFrame ==
  /\ frameIn = <<>> /\ fpc = "idle" /\ frame = <<>>

\* No operator copied.
IdleSend ==
  /\ sendExecs = <<>> /\ sendCalls = <<>> /\ sendPc = "idle"

\* No character asked about.
IdleDialect ==
  /\ dialectCh = 0 /\ dialectMethod = "" /\ dialectAnswer = FALSE

IdleData == IdleCodec /\ IdleScan /\ IdleFrame /\ IdleSend /\ IdleDialect

Init == InitPlan /\ IdleFilters /\ IdleExec /\ IdleWorker /\ IdleData

Next ==
  \/ (LogicalPartitions /\ UNCHANGED <<filterVars, execVars, workerVars, dataVars>>)
  \/ (AssignNodesStep /\ UNCHANGED <<filterVars, execVars, workerVars, dataVars>>)
  \/ (AssignNodesAgain /\ UNCHANGED <<filterVars, execVars, workerVars, dataVars>>)

Spec == Init /\ [][Next]_vars

\* ====================================================== planning claims
AllSnapshotPartitions ==
  Flatten([u \in DOMAIN snapshots |-> UnionPartitions(snapshots[u])])

OrdinaryRegime == \A i \in DOMAIN AllSnapshotPartitions :
                    AllSnapshotPartitions[i].multi = None
MultiRegime == /\ AllSnapshotPartitions # <<>>
               /\ \A i \in DOMAIN AllSnapshotPartitions :
                    AllSnapshotPartitions[i].multi # None
MixedRegime == ~OrdinaryRegime /\ ~MultiRegime

Planned == pc \in {"logical", "assigned", "reassigned"}

RECURSIVE ProductOfLengths(_)
ProductOfLengths(lists) ==
  IF lists = <<>> THEN 1 ELSE Len(Head(lists)) * ProductOfLengths(Tail(lists))

\* Every choice of one partition per arm.
Combinations(arms) ==
  {c \in [DOMAIN arms -> Range(AllSnapshotPartitions)] :
     \A u \in DOMAIN arms : c[u] \in Range(arms[u])}

NoDuplicates(s) == \A i, j \in DOMAIN s : s[i] = s[j] => i = j

IsProductOf(arms) ==
  /\ Range(logical) = Combinations(arms)
  /\ Len(logical) = ProductOfLengths(arms)
  /\ NoDuplicates(logical)

UnionArms == [u \in DOMAIN snapshots |-> UnionPartitions(snapshots[u])]
NonEmptyArms == SelectSeq(UnionArms, LAMBDA l : l # <<>>)

\* C1 as stated: in the ordinary regime logical_partitions returns the
\* Cartesian product of all union arms' partition lists, |U1|*...*|Uk|
\* logical worker partitions.
C1_AllArms == (Planned /\ OrdinaryRegime) => IsProductOf(UnionArms)

\* C1 amended: in the ordinary regime, when at least one union arm holds a
\* partition, logical_partitions returns the Cartesian product of the
\* non-empty arms' partition lists (arms without partitions are skipped):
\* one logical worker partition per combination of one partition per
\* non-empty arm, the product of their sizes in number.
C1_NonEmptyArms ==
  (Planned /\ OrdinaryRegime /\ NonEmptyArms # <<>>) => IsProductOf(NonEmptyArms)

C1_Witness ==
  /\ pc = "logical" /\ OrdinaryRegime
  /\ Len(NonEmptyArms) >= 2
  /\ Len(logical) >= 2
  /\ Len(logical) = ProductOfLengths(NonEmptyArms)

\* Leaves of the multi-partition tree, and whether each holds a partition
\* of the query.
TreeLeaves == {m \in DOMAIN tree : \A c \in DOMAIN tree : tree[c].parent # m}
LeavesPopulated == TreeLeaves \subseteq DOMAIN MultiPartitions(snapshots)

\* The list the claim gives a leaf: its own partitions, then those of every
\* ancestor on its parent chain.
LeafWithAncestors(m) ==
  MultiPartitions(snapshots)[m]
    \o AncestorParts(tree[m].parent, MultiPartitions(snapshots), tree)

\* C2: in the multi regime logical_partitions emits exactly one logical
\* worker partition per leaf multi-partition, holding the leaf's partitions
\* followed by the partitions of every ancestor on its parent chain.
C2_LeafListsCarryAncestors ==
  (Planned /\ MultiRegime /\ LeavesPopulated) =>
    /\ Len(logical) = Cardinality(TreeLeaves)
    /\ \A m \in TreeLeaves :
         \E i \in DOMAIN logical : logical[i] = LeafWithAncestors(m)

\* The rows a partition stores: every key of its range.
StoredKeys(p) == {k \in Keys : InRange(k, [start |-> p.min, end |-> p.max])}

\* The logical worker partitions whose issued filters read key k of p.
ReadersOf(p, k) ==
  {i \in DOMAIN logical :
     \E j \in DOMAIN IssueFilters(logical[i]) :
        /\ IssueFilters(logical[i])[j].id = p.id
        /\ InRange(k, IssueFilters(logical[i])[j].range)}

\* C3: in the multi regime every row stored in a partition of the snapshots
\* is read by exactly one leaf's logical worker partition once the issued
\* RowRange filters are applied.
C3_EveryRowReadOnce ==
  (Planned /\ MultiRegime /\ LeavesPopulated) =>
    \A i \in DOMAIN AllSnapshotPartitions :
      \A k \in StoredKeys(AllSnapshotPartitions[i]) :
        Cardinality(ReadersOf(AllSnapshotPartitions[i], k)) = 1

\* C5: logical_partitions fails its assertion, and produces no worker
\* assignment, exactly when the snapshots mix partitions with and without
\* multi_partition_id.
C5_MixedRegimePanics ==
  pc # "new" =>
    /\ (pc = "panic") = MixedRegime
    /\ pc = "panic" => (logical = <<>> /\ partitions = <<>> /\ nodes = <<>>)

C5_Witness == pc = "panic" /\ MixedRegime

\* The filters the logical worker partitions routed to node n were issued,
\* in input order.
FiltersRoutedTo(n) ==
  Flatten([i \in DOMAIN logical |->
             IF nodes[i] = n THEN IssueFilters(logical[i]) ELSE <<>>])

\* C6: assign_nodes returns the selected workers in strictly ascending name
\* order, each once, each with the concatenation in input order of the
\* filters of the logical worker partitions routed to it; every logical
\* worker partition is routed to exactly one worker and there is one output
\* partition per entry.
C6_AssignNodesShape ==
  pc \in {"assigned", "reassigned"} =>
    /\ \A i, j \in DOMAIN partitions :
         i < j => StrLess(partitions[i].node, partitions[j].node)
    /\ {partitions[i].node : i \in DOMAIN partitions} = Range(nodes)
    /\ \A i \in DOMAIN partitions :
         partitions[i].filters = FiltersRoutedTo(partitions[i].node)
    /\ \A l \in DOMAIN logical :
         Cardinality({i \in DOMAIN partitions : partitions[i].node = nodes[l]}) = 1
    /\ OutputPartitioning(partitions) = Cardinality(Range(nodes))

C6_Witness ==
  /\ pc = "assigned"
  /\ Len(partitions) >= 2
  /\ Len(logical) >= 3
  /\ \E i \in DOMAIN partitions :
       Cardinality({l \in DOMAIN logical : nodes[l] = partitions[i].node}) >= 2

\* C7: two evaluations of assign_nodes on the same config and logical
\* worker partitions return the same list, and in the multi regime the
\* worker of a logical worker partition is determined by the config and the
\* multi_partition_id of its first partition alone.
C7_AssignNodesDeterministic ==
  /\ pc = "reassigned" => partitions2 = partitions
  /\ pc \in {"assigned", "reassigned"} =>
       \A l \in DOMAIN logical :
         logical[l][1].multi # None =>
           nodes[l] = PickWorkerByIds(config, <<logical[l][1].multi>>)

C7_Witness ==
  /\ pc = "reassigned"
  /\ MultiRegime
  /\ Len(partitions2) >= 2
  /\ \E l \in DOMAIN logical : Len(logical[l]) >= 2

\* ======================================= issue_filters on any argument
\* No planning in progress.
IdlePlan ==
  /\ config = [workers |-> <<WorkerName(1)>>]
  /\ tree = <<>>
  /\ snapshots = <<>>
  /\ pc = "idle"
  /\ logical = <<>>
  /\ nodes = <<>>
  /\ partitions = <<>>
  /\ partitions2 = <<>>

RowBounds == {None} \cup (0..MaxKey)

\* Argument lists of issue_filters: up to MaxPart partitions with ascending
\* or descending ids, any multi_partition_id each; the first partition has
\* any key range and the others share one.
InitFilters ==
  /\ IdlePlan
  /\ \E n \in 0..MaxPart :
       \E up \in BOOLEAN :
         \E multi \in [1..n -> {None} \cup (1..MaxMulti)] :
           \E first, other \in [min : RowBounds, max : RowBounds] :
             ps = [i \in 1..n |->
                     [id |-> IF up THEN i ELSE n + 1 - i,
                      multi |-> multi[i],
                      min |-> IF i = 1 THEN first.min ELSE other.min,
                      max |-> IF i = 1 THEN first.max ELSE other.max]]
  /\ psPc = "new"
  /\ psFilters = <<>>
  /\ IdleExec
  /\ IdleWorker
  /\ IdleData

IssueFiltersCall ==
  /\ psPc = "new"
  /\ psFilters' = IssueFilters(ps)
  /\ psPc' = "done"
  /\ UNCHANGED <<ps, planVars, execVars, workerVars, dataVars>>

NextFilters == IssueFiltersCall

SpecFilters == InitFilters /\ [][NextFilters]_vars

\* C4: issue_filters(ps) returns one (partition id, RowRange) pair per
\* element of ps in the same order; every range is the default when ps[0]
\* has no multi_partition_id, otherwise a partition with the
\* multi_partition_id of ps[0] gets the default range and every other
\* partition gets [ps[0].min_val, ps[0].max_val).
C4_IssueFilters ==
  psPc = "done" =>
    /\ Len(psFilters) = Len(ps)
    /\ \A i \in DOMAIN ps :
         /\ psFilters[i].id = ps[i].id
         /\ psFilters[i].range =
              IF ps[1].multi = None \/ ps[i].multi = ps[1].multi
              THEN [start |-> None, end |-> None]
              ELSE [start |-> ps[1].min, end |-> ps[1].max]

C4_Witness ==
  /\ psPc = "done"
  /\ Len(ps) >= 3
  /\ ps[1].multi # None
  /\ ps[1].min # None /\ ps[1].max # None
  /\ \E i, j \in 2..Len(ps) :
       /\ ps[i].multi = ps[1].multi /\ psFilters[i].range.start = None
       /\ ps[j].multi \notin {None, ps[1].multi}
       /\ psFilters[j].range.start = ps[1].min
       /\ psFilters[j].range.end = ps[1].max

\* ============================================ ClusterSendExec::execute
\* RowFilter::default(): no range yet.
DefaultFilter == [or_filters |-> <<>>]

\* RowFilter::append_or: one more range OR-ed into the filter.
AppendOr(f, r) == [or_filters |-> Append(f.or_filters, r)]

\* A RowFilter matches the keys one of its ranges matches.
FilterMatches(f, k) == \E i \in DOMAIN f.or_filters : InRange(k, f.or_filters[i])

RECURSIVE AppendAll(_, _)
AppendAll(f, rs) ==
  IF rs = <<>> THEN f ELSE AppendAll(AppendOr(f, Head(rs)), Tail(rs))

\* Mutant: insert(id, range) instead of entry(id).or_default().append_or():
\* an id keeps its last range only.
GroupByPartitionId_Overwrite(filters) ==
  [id \in {filters[j].id : j \in DOMAIN filters} |->
     LET rs == SelectSeq(filters, LAMBDA e : e.id = id)
     IN AppendOr(DefaultFilter, rs[Len(rs)].range)]

\* The map ps after the loop over the worker's (id, range) list.
GroupByPartitionId(filters) ==
  [id \in {filters[j].id : j \in DOMAIN filters} |->
     LET rs == SelectSeq(filters, LAMBDA e : e.id = id)
     IN AppendAll(DefaultFilter, [j \in DOMAIN rs |-> rs[j].range])]

\* Mutant: the entries stay in the iteration order of the map.
SortById_AsIterated(r) == r

\* sort_unstable_by_key(|(id, _)| *id)
RECURSIVE SortById(_)
SortById(r) ==
  IF r = <<>> THEN <<>>
  ELSE LET i == CHOOSE i \in DOMAIN r : \A j \in DOMAIN r : r[i].id <= r[j].id
       IN <<r[i]>> \o SortById([k \in 1..(Len(r) - 1) |->
                                  IF k < i THEN r[k] ELSE r[k + 1]])

\* The list bound into the plan; order is the iteration order of
\* ps.into_iter().
PartitionIdsToExecute(filters, order) ==
  LET m == GroupByPartitionId(filters)
  IN SortById([j \in DOMAIN order |-> [id |-> order[j], filter |-> m[order[j]]]])

\* SerializedPlan::with_partition_id_to_execute
WithPartitionIdToExecute(grouped) == [partition_ids_to_execute |-> grouped]

\* Mutant: the first entry instead of the entry of the output partition.
ExecuteEntry_First(parts, partition) == parts[1]

\* let (node_name, partitions) = &self.partitions[partition]
ExecuteEntry(parts, partition) == parts[partition]

\* The remote method execute calls.
RemoteMethod(streaming) ==
  IF streaming THEN "run_select_stream" ELSE "run_select"

ExecRanges == {DefaultRange, [start |-> None, end |-> 1], [start |-> 1, end |-> None]}

FilterLists(maxLen) ==
  UNION {[1..n -> [id : 1..MaxPart, range : ExecRanges]] : n \in 1..maxLen}

\* The worker names in ascending order.
SortedWorkers ==
  LET s == SortByNode([i \in 1..MaxWorkers |-> [node |-> WorkerName(i), filters |-> <<>>]])
  IN [i \in 1..MaxWorkers |-> s[i].node]

\* What a worker answers: an error or a list of batches.
Replies == {[ok |-> FALSE, batches |-> <<>>],
            [ok |-> TRUE, batches |-> <<>>],
            [ok |-> TRUE, batches |-> <<2, 1>>]}

IdleCall == [state |-> "idle", partition |-> 0,
             reply |-> [ok |-> FALSE, batches |-> <<>>],
             result |-> [ok |-> FALSE, source |-> "none", batches |-> <<>>]]

\* A ClusterSendExec as assign_nodes leaves it (workers ascending, each
\* once, no empty list): either one worker with any list of up to
\* MaxFilters filters and a single execute call, or several workers with
\* one partition each and MaxCalls concurrent execute calls.
InitExec ==
  /\ config = [workers |-> <<WorkerName(1)>>]
  /\ tree = <<>> /\ snapshots = <<>> /\ logical = <<>> /\ nodes = <<>>
  /\ partitions2 = <<>>
  /\ pc = "built"
  /\ IdleFilters
  /\ useStreaming \in BOOLEAN
  /\ \/ /\ \E fl \in FilterLists(MaxFilters) :
             partitions = <<[node |-> SortedWorkers[1], filters |-> fl]>>
        /\ calls = <<IdleCall>>
     \/ /\ \E n \in 1..MaxWorkers :
             partitions = [e \in 1..n |->
                             [node |-> SortedWorkers[e],
                              filters |-> <<[id |-> e, range |-> DefaultRange]>>]]
        /\ calls = [c \in 1..MaxCalls |-> IdleCall]
  /\ sent = [c \in DOMAIN calls |-> <<>>]
  /\ IdleWorker
  /\ IdleData

\* execute(partition) up to the await of the remote call.
ExecuteCall(c, partition) ==
  /\ calls[c].state = "idle"
  /\ LET entry == ExecuteEntry(partitions, partition)
         ids == DOMAIN GroupByPartitionId(entry.filters)
     IN \E order \in IterationOrders(ids) :
          sent' = [sent EXCEPT ![c] = Append(@,
                    [node |-> entry.node,
                     method |-> RemoteMethod(useStreaming),
                     plan |-> WithPartitionIdToExecute(
                                PartitionIdsToExecute(entry.filters, order))])]
  /\ calls' = [calls EXCEPT ![c].state = "awaiting", ![c].partition = partition]
  /\ UNCHANGED <<planVars, filterVars, workerVars, useStreaming, dataVars>>

\* The cluster completes the remote call of c.
ClusterReply(c, reply) ==
  /\ calls[c].state = "awaiting"
  /\ calls' = [calls EXCEPT ![c].state = "replied", ![c].reply = reply]
  /\ UNCHANGED <<planVars, filterVars, workerVars, useStreaming, sent, dataVars>>

\* execute after the await: `?` returns the error; the stream is returned
\* as is, the batches of run_select are replayed by a MemoryExec.
ExecuteResume(c) ==
  /\ calls[c].state = "replied"
  /\ calls' = [calls EXCEPT
       ![c].state = "done",
       ![c].result =
          IF ~calls[c].reply.ok
          THEN [ok |-> FALSE, source |-> "none", batches |-> <<>>]
          ELSE [ok |-> TRUE,
                source |-> IF useStreaming THEN "stream" ELSE "memory",
                batches |-> calls[c].reply.batches]]
  /\ UNCHANGED <<planVars, filterVars, workerVars, useStreaming, sent, dataVars>>

NextExec ==
  \/ \E c \in DOMAIN calls : \E i \in DOMAIN partitions : ExecuteCall(c, i)
  \/ \E c \in DOMAIN calls : \E reply \in Replies : ClusterReply(c, reply)
  \/ \E c \in DOMAIN calls : ExecuteResume(c)

SpecExec == InitExec /\ [][NextExec]_vars

\* The (id, range) list of the entry call c executes.
ListOf(c) == partitions[calls[c].partition].filters

Bound(c) == sent[c][1].plan.partition_ids_to_execute

\* C8: execute(i) binds into the plan one entry per distinct partition id
\* of the i-th worker's list, in strictly ascending id order, whose
\* RowFilter is the OR of all RowRanges the list gives that id.
C8_BoundFilters ==
  \A c \in DOMAIN calls :
    calls[c].state # "idle" =>
      /\ {Bound(c)[j].id : j \in DOMAIN Bound(c)}
           = {ListOf(c)[j].id : j \in DOMAIN ListOf(c)}
      /\ \A j, k \in DOMAIN Bound(c) : j < k => Bound(c)[j].id < Bound(c)[k].id
      /\ \A j \in DOMAIN Bound(c) :
           \A k \in Keys :
             FilterMatches(Bound(c)[j].filter, k)
               = (\E l \in DOMAIN ListOf(c) :
                    /\ ListOf(c)[l].id = Bound(c)[j].id
                    /\ InRange(k, ListOf(c)[l].range))

C8_Witness ==
  \E c \in DOMAIN calls :
    /\ calls[c].state = "awaiting"
    /\ Len(ListOf(c)) = 3
    /\ Len(Bound(c)) = 2
    /\ ListOf(c)[1].id > ListOf(c)[2].id
    /\ ListOf(c)[3].id = ListOf(c)[1].id
    /\ ListOf(c)[3].range # ListOf(c)[1].range
    /\ ListOf(c)[3].range # DefaultRange /\ ListOf(c)[1].range # DefaultRange

\* C9: under any interleaving of execute calls, a call execute(i) issues
\* exactly one remote call, to the worker of the i-th entry with the plan
\* specialized from the i-th entry only: run_select_stream when
\* use_streaming is set, otherwise run_select, whose batches are replayed in
\* the worker's order from a memory source.
C9_OneRemoteCall ==
  \A c \in DOMAIN calls :
    /\ calls[c].state = "idle" => sent[c] = <<>>
    /\ calls[c].state # "idle" =>
         /\ Len(sent[c]) = 1
         /\ sent[c][1].node = partitions[calls[c].partition].node
         /\ {Bound(c)[j].id : j \in DOMAIN Bound(c)}
              = {ListOf(c)[j].id : j \in DOMAIN ListOf(c)}
         /\ sent[c][1].method =
              IF useStreaming THEN "run_select_stream" ELSE "run_select"
    /\ calls[c].state = "done" =>
         /\ calls[c].result.ok = calls[c].reply.ok
         /\ calls[c].reply.ok =>
              /\ calls[c].result.batches = calls[c].reply.batches
              /\ calls[c].result.source =
                   IF useStreaming THEN "stream" ELSE "memory"

C9_Witness ==
  /\ Len(calls) >= 2
  /\ ~useStreaming
  /\ calls[1].state = "done" /\ calls[1].partition = 2
  /\ calls[1].result.ok /\ calls[1].result.batches = <<2, 1>>
  /\ calls[2].state = "awaiting" /\ calls[2].partition = 1

\* ================================= execute_worker_plan, regroup_batches
\* The columns of every schema of the model.
NumCols == 2

\* A record batch of n rows; every cell is tagged with its batch, column
\* and row, so that any two cells differ.
TaggedBatch(b, n, schema) ==
  [schema |-> schema,
   columns |-> [c \in 1..NumCols |-> [i \in 1..n |-> <<b, c, i>>]]]

\* RecordBatch::num_rows
NumRows(b) == Len(b.columns[1])

\* Mutant: the slice starts at row 0 whatever the cursor.
SliceCopy_FromZero(a, start, len) == SubSeq(a, 1, len)

\* slice_copy(a, start, len): a copy of rows start .. start + len of a.
SliceCopy(a, start, len) == SubSeq(a, start + 1, start + len)

\* Mutant: a full slice is one row short of max_rows.
Min_OneShort(a, b) == IF a <= b THEN a ELSE IF b > 1 THEN b - 1 ELSE b

Min(a, b) == IF a <= b THEN a ELSE b

\* The worker's physical plan: the enclosing plan and, when present, the
\* worker marker with its sub-plan and max_batch_rows.
WorkerPlans ==
  {[schema |-> "enclosing", marker |-> <<>>]}
    \cup {[schema |-> "enclosing",
           marker |-> <<[schema |-> "worker", max_batch_rows |-> n]>>] :
            n \in 1..MaxBatchRows}

InitWorker ==
  /\ IdlePlan /\ IdleFilters /\ IdleExec /\ IdleData
  /\ physicalPlan \in WorkerPlans
  /\ wpc = "new"
  /\ collected = "none"
  /\ batches = <<>> /\ batchIdx = 0 /\ row = 0 /\ regrouped = <<>>
  /\ workerResult = <<>>

Err == [ok |-> FALSE, schema |-> "", batches |-> <<>>]

\* Mutant: without a marker the enclosing plan is collected and returned.
NoWorkerMarker_Collects ==
  /\ wpc = "new"
  /\ physicalPlan.marker = <<>>
  /\ collected' = physicalPlan.schema
  /\ workerResult' = [ok |-> TRUE, schema |-> physicalPlan.schema,
                      batches |-> <<>>]
  /\ wpc' = "done"
  /\ UNCHANGED <<physicalPlan, batches, batchIdx, row, regrouped>>
  /\ UNCHANGED <<planVars, filterVars, execVars, dataVars>>

\* get_worker_plan: no marker, the internal error is returned.
NoWorkerMarker ==
  /\ wpc = "new"
  /\ physicalPlan.marker = <<>>
  /\ workerResult' = Err
  /\ wpc' = "failed"
  /\ UNCHANGED <<physicalPlan, collected, batches, batchIdx, row, regrouped>>
  /\ UNCHANGED <<planVars, filterVars, execVars, dataVars>>

\* collect(worker_plan) succeeds with any batches of the sub-plan's schema;
\* regroup_batches starts on them.
CollectOk ==
  /\ wpc = "new"
  /\ physicalPlan.marker # <<>>
  /\ collected' = physicalPlan.marker[1].schema
  /\ \E n \in 0..MaxBatches :
       \E len \in [1..n -> 0..MaxRows] :
         batches' = [b \in 1..n |->
                       TaggedBatch(b, len[b], physicalPlan.marker[1].schema)]
  /\ regrouped' = <<>>
  /\ batchIdx' = 1
  /\ row' = 0
  /\ wpc' = "regroup"
  /\ UNCHANGED <<physicalPlan, workerResult>>
  /\ UNCHANGED <<planVars, filterVars, execVars, dataVars>>

\* collect(worker_plan) fails: `results?` returns the error.
CollectErr ==
  /\ wpc = "new"
  /\ physicalPlan.marker # <<>>
  /\ collected' = physicalPlan.marker[1].schema
  /\ workerResult' = Err
  /\ wpc' = "failed"
  /\ UNCHANGED <<physicalPlan, batches, batchIdx, row, regrouped>>
  /\ UNCHANGED <<planVars, filterVars, execVars, dataVars>>

max_rows == physicalPlan.marker[1].max_batch_rows

\* One iteration of `while row != b.num_rows()`.
RegroupSlice ==
  /\ wpc = "regroup"
  /\ batchIdx <= Len(batches)
  /\ row # NumRows(batches[batchIdx])
  /\ LET b == batches[batchIdx]
         slice_len == Min(NumRows(b) - row, max_rows)
     IN /\ regrouped' = Append(regrouped, [schema |-> b.schema,
                           columns |-> [c \in DOMAIN b.columns |->
                                          SliceCopy(b.columns[c], row, slice_len)]])
        /\ row' = row + slice_len
  /\ UNCHANGED <<physicalPlan, wpc, collected, batches, batchIdx, workerResult>>
  /\ UNCHANGED <<planVars, filterVars, execVars, dataVars>>

\* The while loop ends, `for b in batches` takes the next batch.
RegroupNextBatch ==
  /\ wpc = "regroup"
  /\ batchIdx <= Len(batches)
  /\ row = NumRows(batches[batchIdx])
  /\ batchIdx' = batchIdx + 1
  /\ row' = 0
  /\ UNCHANGED <<physicalPlan, wpc, collected, batches, regrouped, workerResult>>
  /\ UNCHANGED <<planVars, filterVars, execVars, dataVars>>

\* Ok(regrouped), and execute_worker_plan returns (worker_plan.schema(), results).
RegroupReturn ==
  /\ wpc = "regroup"
  /\ batchIdx > Len(batches)
  /\ workerResult' = [ok |-> TRUE, schema |-> physicalPlan.marker[1].schema,
                      batches |-> regrouped]
  /\ wpc' = "done"
  /\ UNCHANGED <<physicalPlan, collected, batches, batchIdx, row, regrouped>>
  /\ UNCHANGED <<planVars, filterVars, execVars, dataVars>>

NextWorker ==
  \/ NoWorkerMarker
  \/ CollectOk
  \/ CollectErr
  \/ RegroupSlice
  \/ RegroupNextBatch
  \/ RegroupReturn

SpecWorker == InitWorker /\ [][NextWorker]_vars

\* The rows of a batch, each the tuple of its cells, and of a batch list.
RowsOf(b) == [i \in 1..NumRows(b) |-> [c \in DOMAIN b.columns |-> b.columns[c][i]]]
ConcatRows(bs) == Flatten([i \in DOMAIN bs |-> RowsOf(bs[i])])

\* C10: regroup_batches(B, n), n >= 1, returns batches with the row
\* concatenation and schema of B, each of at most n rows, and
\* execute_worker_plan returns its collected result regrouped with
\* n = max_batch_rows of the worker marker.
C10_RegroupLaw ==
  wpc = "done" =>
    /\ workerResult.ok
    /\ ConcatRows(workerResult.batches) = ConcatRows(batches)
    /\ \A i \in DOMAIN workerResult.batches :
         /\ NumRows(workerResult.batches[i]) <= physicalPlan.marker[1].max_batch_rows
         /\ workerResult.batches[i].schema = physicalPlan.marker[1].schema
         /\ \A c \in 1..NumCols :
              Len(workerResult.batches[i].columns[c])
                = NumRows(workerResult.batches[i])

C10_Witness ==
  /\ wpc = "done"
  /\ Len(batches) = 2
  /\ NumRows(batches[1]) > 2 * physicalPlan.marker[1].max_batch_rows
  /\ NumRows(batches[2]) > 0
  /\ physicalPlan.marker[1].max_batch_rows > 1
  /\ Len(workerResult.batches) > 3

\* The row counts of a batch list.
Sizes(bs) == [i \in DOMAIN bs |-> NumRows(bs[i])]

\* Input batches of 7 and 3 rows regrouped with max_rows = 4.
SevenThreeByFour ==
  /\ wpc = "done"
  /\ Sizes(batches) = <<7, 3>>
  /\ physicalPlan.marker[1].max_batch_rows = 4

\* C11 as stated: regrouping batches of 7 and 3 rows with max_rows = 4
\* returns four batches of sizes [4,3,3,1].
C11_FourBatches ==
  SevenThreeByFour => Sizes(workerResult.batches) = <<4, 3, 3, 1>>

\* C11 amended: regrouping batches of 7 and 3 rows with max_rows = 4 returns
\* three batches of sizes [4,3,3]; rows of different input batches are never
\* merged into one output batch, so the sizes are not [4,3,4] either.
C11_ThreeBatches ==
  SevenThreeByFour =>
    /\ Sizes(workerResult.batches) = <<4, 3, 3>>
    /\ \A i \in DOMAIN workerResult.batches :
         \A c \in 1..NumCols :
           \A j, k \in DOMAIN workerResult.batches[i].columns[c] :
             workerResult.batches[i].columns[c][j][1]
               = workerResult.batches[i].columns[c][k][1]

C11_Witness ==
  /\ SevenThreeByFour
  /\ Len(workerResult.batches) = 3
  /\ NumRows(workerResult.batches[2]) = 3

\* C18: execute_worker_plan fails with an internal error, without collecting
\* any plan, when the physical plan holds no worker marker; with the marker
\* it collects the marker's sub-plan, not the enclosing plan, and a
\* successful call returns that sub-plan's schema.
C18_WorkerMarker ==
  /\ (wpc # "new" /\ physicalPlan.marker = <<>>) =>
        /\ wpc = "failed"
        /\ ~workerResult.ok
        /\ collected = "none"
  /\ (wpc # "new" /\ physicalPlan.marker # <<>>) =>
        /\ collected = physicalPlan.marker[1].schema
        /\ collected # physicalPlan.schema
  /\ wpc = "done" =>
        /\ physicalPlan.marker # <<>>
        /\ workerResult.ok
        /\ workerResult.schema = physicalPlan.marker[1].schema

C18_Witness ==
  /\ wpc = "failed"
  /\ physicalPlan.marker = <<>>
  /\ collected = "none"
  /\ ~workerResult.ok

\* ========================================== SerializedRecordBatchStream
\* A blob is the sequence of messages of an Arrow IPC stream: the schema
\* message the writer starts with, one message per record batch written,
\* and the end-of-stream marker written by finish.
SchemaMessage(schema) == [kind |-> "schema", schema |-> schema, columns |-> <<>>, valid |-> TRUE]
BatchMessage(batch) == [kind |-> "batch", schema |-> "", columns |-> batch.columns, valid |-> TRUE]
EosMessage == [kind |-> "eos", schema |-> "", columns |-> <<>>, valid |-> TRUE]

\* MemStreamWriter::try_new(cursor, schema), write(batch) for each batch of
\* bs, finish.
Encode(schema, bs) ==
  <<SchemaMessage(schema)>> \o [i \in DOMAIN bs |-> BatchMessage(bs[i])]
    \o <<EosMessage>>

\* Mutant: all batches are written to one blob.
Write_OneBlob(schema, record_batches) == <<Encode(schema, record_batches)>>

\* SerializedRecordBatchStream::write: a new writer for every batch.
Write(schema, record_batches) ==
  [i \in DOMAIN record_batches |-> Encode(schema, <<record_batches[i]>>)]

NoBatch == [schema |-> "", columns |-> <<>>]
ReadErr(message) == [ok |-> FALSE, batch |-> NoBatch, error |-> message]

\* StreamReader::next at message position pos (the schema message is at
\* position 1): "none" at the end of the stream, else the batch decoded
\* with the schema of the stream, or its decoding error.
ReaderNext(blob, pos) ==
  IF pos > Len(blob) \/ blob[pos].kind # "batch" THEN "none"
  ELSE IF ~blob[pos].valid THEN "error"
  ELSE "batch"

BatchAt(blob, pos) == [schema |-> blob[1].schema, columns |-> blob[pos].columns]

\* Mutant: the first batch is returned whatever follows it.
Read_First(blob) ==
  IF blob = <<>> \/ blob[1].kind # "schema" THEN ReadErr("malformed stream")
  ELSE IF ReaderNext(blob, 2) = "none" THEN ReadErr("zero batches deserialized")
  ELSE IF ReaderNext(blob, 2) = "error" THEN ReadErr("malformed batch")
  ELSE [ok |-> TRUE, batch |-> BatchAt(blob, 2), error |-> ""]

\* SerializedRecordBatchStream::read
Read(blob) ==
  IF blob = <<>> \/ blob[1].kind # "schema" THEN ReadErr("malformed stream")
  ELSE IF ReaderNext(blob, 2) = "none" THEN ReadErr("zero batches deserialized")
  ELSE IF ReaderNext(blob, 2) = "error" THEN ReadErr("malformed batch")
  ELSE IF ReaderNext(blob, 3) # "none"
    THEN ReadErr("more than one batch deserialized")
  ELSE [ok |-> TRUE, batch |-> BatchAt(blob, 2), error |-> ""]

CodecSchemas == {"s1", "s2"}

\* The batch lists given to write: up to MaxBatches batches of the schema
\* given with them, of 0..MaxBatchRows rows.
CodecBatches(schema) ==
  UNION {{[b \in 1..n |-> TaggedBatch(b, len[b], schema)] :
            len \in [1..n -> 0..MaxBatchRows]} : n \in 0..MaxBatches}

\* The blobs a reader may be given: any stream of a schema message, up to
\* MaxBatches + 1 batch messages, each well-formed or not, and the end
\* marker; or a stream without the schema message.
WireBlobs ==
  {<<>>} \cup
  UNION {{<<SchemaMessage(schema)>>
            \o [i \in 1..n |-> [BatchMessage(TaggedBatch(i, len[i], schema))
                                   EXCEPT !.valid = good[i]]]
            \o <<EosMessage>> :
            len \in [1..n -> 0..1], good \in [1..n -> BOOLEAN]} :
          schema \in CodecSchemas, n \in 0..(MaxBatches + 1)}

IdleQuery == IdlePlan /\ IdleFilters /\ IdleExec /\ IdleWorker
queryVars == <<planVars, filterVars, execVars, workerVars>>

InitCodec ==
  /\ IdleQuery /\ IdleDialect /\ IdleScan /\ IdleFrame /\ IdleSend
  /\ decoded = <<>>
  /\ \/ /\ cpc = "new"
        /\ codecSchema \in CodecSchemas
        /\ codecIn \in CodecBatches(codecSchema)
        /\ blobs = <<>>
     \/ /\ cpc = "received"
        /\ codecSchema = ""
        /\ codecIn = <<>>
        /\ \E blob \in WireBlobs : blobs = <<blob>>

\* write(schema, record_batches) returns Ok(results).
WriteCall ==
  /\ cpc = "new"
  /\ blobs' = Write(codecSchema, codecIn)
  /\ cpc' = "written"
  /\ UNCHANGED <<codecSchema, codecIn, decoded>>
  /\ UNCHANGED <<queryVars, dialectVars, scanVars, frameVars, sendVars>>

\* read of the next blob, in the order of the list.
ReadCall ==
  /\ cpc \in {"written", "received"}
  /\ Len(decoded) < Len(blobs)
  /\ decoded' = Append(decoded, Read(blobs[Len(decoded) + 1]))
  /\ UNCHANGED <<codecSchema, codecIn, blobs, cpc>>
  /\ UNCHANGED <<queryVars, dialectVars, scanVars, frameVars, sendVars>>

NextCodec ==
  \/ WriteCall
  \/ ReadCall

SpecCodec == InitCodec /\ [][NextCodec]_vars

BatchCount(blob) == Cardinality({i \in DOMAIN blob : blob[i].kind = "batch"})

\* C13: read returns a batch only when the blob holds exactly one batch; it
\* returns an error when the blob holds no batch and when it holds more
\* than one.
C13_ExactlyOneBatch ==
  \A k \in DOMAIN decoded :
    /\ decoded[k].ok => BatchCount(blobs[k]) = 1
    /\ BatchCount(blobs[k]) = 0 => ~decoded[k].ok
    /\ BatchCount(blobs[k]) > 1 => ~decoded[k].ok

C13_Witness ==
  /\ cpc = "received"
  /\ Len(decoded) = 1
  /\ BatchCount(blobs[1]) = 2
  /\ blobs[1][2].valid
  /\ ~decoded[1].ok
  /\ decoded[1].error = "more than one batch deserialized"

\* ================================================= CubeTable::async_scan
\* Option<T>: <<>> is None and <<x>> is Some(x).
Nothing == <<>>
Some(x) == <<x>>

\* Iterator::find_position(|c| c == x): the position, counted from 0, of
\* the first element equal to x, or None.
FindPosition(seq, x) ==
  IF \E i \in DOMAIN seq : seq[i] = x
    THEN (CHOOSE i \in DOMAIN seq :
            seq[i] = x /\ \A j \in 1..(i - 1) : seq[j] # x) - 1
    ELSE None

\* Vec::sort on column positions.
RECURSIVE SortAscending(_)
SortAscending(seq) ==
  IF seq = <<>> THEN <<>>
  ELSE LET i == CHOOSE i \in DOMAIN seq : \A j \in DOMAIN seq : seq[i] <= seq[j]
       IN <<seq[i]>> \o SortAscending([k \in 1..(Len(seq) - 1) |->
                                         IF k < i THEN seq[k] ELSE seq[k + 1]])

\* An operator of the physical plan.
Node(op, args, children) == [op |-> op, args |-> args, children |-> children]
NoPlan == Node("none", <<>>, <<>>)

\* Result<Arc<dyn ExecutionPlan>, CubeError>, or the panic of an
\* unwrap / expect.
ScanOk(plan) == [status |-> "ok", plan |-> plan, message |-> ""]
ScanErr(message) == [status |-> "error", plan |-> NoPlan, message |-> message]
ScanPanic(message) == [status |-> "panic", plan |-> NoPlan, message |-> message]

\* The loop `for column in key_columns` of projection_with_seq_column.
RECURSIVE PushMissing(_, _)
PushMissing(with_seq, key_columns) ==
  IF key_columns = <<>> THEN with_seq
  ELSE PushMissing(IF Head(key_columns) \in Range(with_seq) THEN with_seq
                   ELSE Append(with_seq, Head(key_columns)),
                   Tail(key_columns))

\* Mutant: the unique-key and sequence columns are appended even when the
\* projection holds them already.
ProjectionWithSeqColumn_PushAll(snap, proj) ==
  IF proj = Nothing THEN Nothing
  ELSE IF snap.unique_key # Nothing
    THEN Some(proj[1] \o [i \in 1..(Len(snap.unique_key[1]) + 1) |->
                FindPosition(snap.table_cols,
                             (snap.unique_key[1] \o snap.seq_column)[i])])
    ELSE proj

\* projection_with_seq_column: the projection (positions of table columns,
\* from 0) followed by the unique-key columns and the sequence column it
\* lacks.
ProjectionWithSeqColumn(snap, proj) ==
  IF proj = Nothing THEN Nothing
  ELSE IF snap.unique_key # Nothing
    THEN LET key_columns == snap.unique_key[1] \o snap.seq_column
         IN Some(PushMissing(proj[1],
                   [i \in DOMAIN key_columns |->
                      FindPosition(snap.table_cols, key_columns[i])]))
    ELSE proj

\* The positions in the index of the projected table columns, before
\* partition_projection.sort().
IndexPositions(snap, p) ==
  [i \in DOMAIN p |-> FindPosition(snap.index_cols, snap.table_cols[p[i] + 1])]

\* partition_projection
PartitionProjection(snap, with_seq) ==
  IF with_seq = Nothing THEN Nothing
  ELSE Some(SortAscending(IndexPositions(snap, with_seq[1])))

\* slice::binary_search_by_key(&id, |(id, _)| *id) between left and right:
\* the position from 0 of an entry with the id, or None for Err(_).
RECURSIVE BinarySearchByKey(_, _, _, _)
BinarySearchByKey(list, id, left, right) ==
  IF left >= right THEN None
  ELSE LET mid == left + ((right - left) \div 2)
       IN IF list[mid + 1].id < id
            THEN BinarySearchByKey(list, id, mid + 1, right)
          ELSE IF list[mid + 1].id > id
            THEN BinarySearchByKey(list, id, left, mid)
          ELSE mid

\* Partition::get_full_name, Chunk::get_full_name, and the local name the
\* worker downloaded a remote file to.
PartitionPath(id) == <<"partition", id>>
ChunkPath(id) == <<"chunk", id>>
LocalPath(remote) == <<"local", remote[1], remote[2]>>

\* FilterByKeyRangeExec::issue_filters(input, filter, key_len)
FilterByKeyRange(input, filter, key_len) ==
  Node("FilterByKeyRange", [filter |-> filter, key_len |-> key_len], <<input>>)

\* ParquetExec::try_from_path(local_path, projection, ..)
ParquetExec(local_path, partition_projection) ==
  Node("ParquetExec", [path |-> local_path, projection |-> partition_projection], <<>>)

\* MemoryExec::try_new(&[record_batches], schema of the first batch, projection)
MemoryExec(record_batches, partition_projection) ==
  Node("MemoryExec", [batches |-> record_batches, projection |-> partition_projection], <<>>)

\* The body of `for partition_snapshot in partition_snapshots` for the file
\* of the partition: the sub-plans pushed, or the failure.
FileExecs(t, part, filter, partition_projection) ==
  IF ~part.has_file THEN ScanOk(<<>>)
  ELSE IF PartitionPath(part.id) \notin t.remote_to_local_names
    THEN ScanPanic("Missing remote path")
  ELSE ScanOk(<<FilterByKeyRange(
                  ParquetExec(LocalPath(PartitionPath(part.id)), partition_projection),
                  filter, t.index_snapshot.sort_key_size)>>)

\* The body of `for chunk in chunks`.
ChunkExecs(t, chunk, filter, partition_projection) ==
  IF chunk.in_memory
    THEN IF chunk.id \notin DOMAIN t.chunk_id_to_record_batches
           THEN ScanErr("Record batch for in memory chunk is not provided")
         ELSE IF t.chunk_id_to_record_batches[chunk.id] = <<>>
           THEN ScanErr("Empty Record batch for in memory chunk is not provided")
         ELSE ScanOk(<<FilterByKeyRange(
                         MemoryExec(t.chunk_id_to_record_batches[chunk.id],
                                    partition_projection),
                         filter, t.index_snapshot.sort_key_size)>>)
  ELSE IF ChunkPath(chunk.id) \notin t.remote_to_local_names
    THEN ScanPanic("Missing remote path")
  ELSE ScanOk(<<FilterByKeyRange(
                  ParquetExec(LocalPath(ChunkPath(chunk.id)), partition_projection),
                  filter, t.index_snapshot.sort_key_size)>>)

\* Results of consecutive loop bodies: the sub-plans pushed so far, until
\* the first failure, which ends the scan.
RECURSIVE InOrder(_)
InOrder(results) ==
  IF results = <<>> THEN ScanOk(<<>>)
  ELSE IF Head(results).status # "ok" THEN Head(results)
  ELSE LET rest == InOrder(Tail(results))
       IN IF rest.status # "ok" THEN rest
          ELSE ScanOk(Head(results).plan \o rest.plan)

\* Mutant: the partitions the worker was not assigned are read as well,
\* unfiltered.
PartitionExecs_All(t, partition_projection) ==
  LET snap == t.index_snapshot
      all == [or_filters |-> <<DefaultRange>>]
  IN InOrder([i \in DOMAIN snap.partitions |->
       InOrder(<<FileExecs(t, snap.partitions[i], all, partition_projection)>>
               \o [c \in DOMAIN snap.partitions[i].chunks |->
                     ChunkExecs(t, snap.partitions[i].chunks[c], all,
                                partition_projection)])])

\* The loop over the partition snapshots: partition_execs after it.
PartitionExecs(t, partition_projection) ==
  LET snap == t.index_snapshot
      found(part) == BinarySearchByKey(t.worker_partition_ids, part.id,
                                       0, Len(t.worker_partition_ids))
      filter(part) == t.worker_partition_ids[found(part) + 1].filter
  IN InOrder([i \in DOMAIN snap.partitions |->
       IF found(snap.partitions[i]) = None THEN ScanOk(<<>>)
       ELSE InOrder(<<FileExecs(t, snap.partitions[i], filter(snap.partitions[i]),
                                partition_projection)>>
                    \o [c \in DOMAIN snap.partitions[i].chunks |->
                          ChunkExecs(t, snap.partitions[i].chunks[c],
                                     filter(snap.partitions[i]),
                                     partition_projection)])])

\* final_reorder: for every column of the read projection, its position in
\* the batches read with the sorted partition projection.
FinalReorder(snap, with_seq, partition_projection) ==
  [i \in DOMAIN with_seq |->
     FindPosition(partition_projection,
                  FindPosition(snap.index_cols, snap.table_cols[with_seq[i] + 1]))]

\* ProjectionExec of the columns at the positions exprs of its input.
ProjectionExec(exprs, input) ==
  Node("ProjectionExec", [exprs |-> exprs], <<input>>)

\* projected_schema: the names of the fields.
ProjectedSchema(snap, with_seq) ==
  IF with_seq = Nothing THEN snap.table_cols
  ELSE [i \in DOMAIN with_seq[1] |-> snap.table_cols[with_seq[1][i] + 1]]

EmptyExec(schema) == Node("EmptyExec", [schema |-> schema], <<>>)

\* Mutant: no EmptyExec is pushed when there is no sub-plan.
WithEmpty_None(partition_execs, projected_schema) == partition_execs

\* `if partition_execs.len() == 0 { push EmptyExec }`
WithEmpty(partition_execs, projected_schema) ==
  IF Len(partition_execs) = 0 THEN <<EmptyExec(projected_schema)>>
  ELSE partition_execs

\* CubeTableExec::output_partitioning: UnknownPartitioning(partition_execs.len())
PartitionCount(n) == Len(n.children)

CubeTableExec(schema, partition_execs, snap) ==
  Node("CubeTableExec", [schema |-> schema, index_snapshot |-> snap], partition_execs)

\* Column::new_with_schema(name, &schema) for every name: the positions, or
\* None when a name is not a field of the schema.
ColumnsWithSchema(names, schema) ==
  [i \in DOMAIN names |-> FindPosition(schema, names[i])]

MergeSortExec(input, columns) == Node("MergeSortExec", [columns |-> columns], <<input>>)
LastRowByUniqueKeyExec(input, columns) ==
  Node("LastRowByUniqueKeyExec", [columns |-> columns], <<input>>)
MergeExec(input) == Node("MergeExec", <<>>, <<input>>)

\* The first n elements of a sequence (Iterator::take).
Take(seq, n) == SubSeq(seq, 1, Min(n, Len(seq)))

\* Mutant: a table without unique key is never merge-sorted.
Unify_Merge(snap, proj, schema, read_data) ==
  IF snap.unique_key # Nothing
    THEN LET sort_columns ==
               ColumnsWithSchema(Take(snap.index_cols, snap.sort_key_size), schema)
             key_columns == ColumnsWithSchema(snap.unique_key[1], schema)
             last_row == LastRowByUniqueKeyExec(
                           MergeSortExec(read_data, sort_columns), key_columns)
         IN IF None \in Range(sort_columns) \/ None \in Range(key_columns)
              THEN ScanErr("Unable to get field")
            ELSE IF proj = Nothing THEN ScanOk(last_row)
            ELSE ScanOk(ProjectionExec(
                          [i \in DOMAIN proj[1] |->
                             FindPosition(schema, snap.table_cols[proj[1][i] + 1])],
                          last_row))
  ELSE ScanOk(MergeExec(read_data))

\* Mutant: the rows of a table with unique key are merge-sorted on the
\* unique-key columns, not on the index's sort key.
Unify_SortOnKey(snap, proj, schema, read_data) ==
  IF snap.unique_key # Nothing
    THEN LET key_columns == ColumnsWithSchema(snap.unique_key[1], schema)
             last_row == LastRowByUniqueKeyExec(
                           MergeSortExec(read_data, key_columns), key_columns)
         IN IF None \in Range(key_columns)
              THEN ScanErr("Unable to get field")
            ELSE IF proj = Nothing THEN ScanOk(last_row)
            ELSE ScanOk(ProjectionExec(
                          [i \in DOMAIN proj[1] |->
                             FindPosition(schema, snap.table_cols[proj[1][i] + 1])],
                          last_row))
  ELSE IF snap.sort_on # Nothing
    THEN LET join_columns == ColumnsWithSchema(snap.sort_on[1], schema)
         IN IF None \in Range(join_columns) THEN ScanErr("Unable to get field")
            ELSE ScanOk(MergeSortExec(read_data, join_columns))
  ELSE ScanOk(MergeExec(read_data))

\* The operator unifying the sub-plans (lines 494-557).
Unify(snap, proj, schema, read_data) ==
  IF snap.unique_key # Nothing
    THEN LET sort_columns ==
               ColumnsWithSchema(Take(snap.index_cols, snap.sort_key_size), schema)
             key_columns == ColumnsWithSchema(snap.unique_key[1], schema)
             last_row == LastRowByUniqueKeyExec(
                           MergeSortExec(read_data, sort_columns), key_columns)
         IN IF None \in Range(sort_columns) \/ None \in Range(key_columns)
              THEN ScanErr("Unable to get field")
            ELSE IF proj = Nothing THEN ScanOk(last_row)
            ELSE ScanOk(ProjectionExec(
                          [i \in DOMAIN proj[1] |->
                             FindPosition(schema, snap.table_cols[proj[1][i] + 1])],
                          last_row))
  ELSE IF snap.sort_on # Nothing
    THEN LET join_columns == ColumnsWithSchema(snap.sort_on[1], schema)
         IN IF None \in Range(join_columns) THEN ScanErr("Unable to get field")
            ELSE ScanOk(MergeSortExec(read_data, join_columns))
  ELSE ScanOk(MergeExec(read_data))

\* CubeTable::async_scan(projection, ..)
AsyncScan(t, proj) ==
  LET snap == t.index_snapshot
      with_seq == ProjectionWithSeqColumn(snap, proj)
      partition_projection == PartitionProjection(snap, with_seq)
      execs == PartitionExecs(t, partition_projection)
      final_reorder == FinalReorder(snap, with_seq[1], partition_projection[1])
      reordered ==
        IF with_seq # Nothing
           /\ final_reorder # [i \in DOMAIN with_seq[1] |-> i - 1]
          THEN [i \in DOMAIN execs.plan |-> ProjectionExec(final_reorder, execs.plan[i])]
          ELSE execs.plan
      projected_schema == ProjectedSchema(snap, with_seq)
  IN IF with_seq # Nothing /\ None \in Range(IndexPositions(snap, with_seq[1]))
       THEN ScanPanic("unwrap on a None value")
     ELSE IF execs.status # "ok" THEN execs
     ELSE Unify(snap, proj, projected_schema,
                CubeTableExec(projected_schema,
                              WithEmpty(reordered, projected_schema), snap))

\* ------------------------------------------- the rows a plan delivers
\* A row is the sequence of its column values in batch order; an operator
\* addresses a column by its position in the batch.
ProjectRow(r, positions) == [i \in DOMAIN positions |-> r[positions[i] + 1]]

\* The values of row r in the columns at positions cols.
KeyOf(r, cols) == ProjectRow(r, cols)

\* Lexicographic order of two keys of the same length.
RECURSIVE KeyLess(_, _)
KeyLess(a, b) ==
  IF a = <<>> THEN FALSE
  ELSE IF Head(a) # Head(b) THEN Head(a) < Head(b)
  ELSE KeyLess(Tail(a), Tail(b))

\* MergeSortExec over the partitions of its input: the next row is the
\* least head row by the sort columns, the first partition winning a tie.
RECURSIVE MergeSorted(_, _)
MergeSorted(streams, cols) ==
  LET live == {i \in DOMAIN streams : streams[i] # <<>>}
  IN IF live = {} THEN <<>>
     ELSE LET i == CHOOSE i \in live :
                     \A j \in live :
                       /\ ~KeyLess(KeyOf(Head(streams[j]), cols),
                                   KeyOf(Head(streams[i]), cols))
                       /\ (j < i => KeyLess(KeyOf(Head(streams[i]), cols),
                                            KeyOf(Head(streams[j]), cols)))
          IN <<Head(streams[i])>>
               \o MergeSorted([streams EXCEPT ![i] = Tail(streams[i])], cols)

\* LastRowByUniqueKeyExec: of every run of adjacent rows equal in the key
\* columns the last row is kept.
LastRowByUniqueKey(rows, cols) ==
  LET keep == {i \in DOMAIN rows :
                 i = Len(rows) \/ KeyOf(rows[i], cols) # KeyOf(rows[i + 1], cols)}
  IN [n \in 1..Cardinality(keep) |-> rows[SetToSeq(keep)[n]]]

\* FilterByKeyRangeExec: the rows whose key, the leading column of the
\* batch, lies in one of the ranges of the filter.
FilterRows(rows, filter) ==
  SelectSeq(rows, LAMBDA r : r = <<>> \/ FilterMatches(filter, r[1]))

\* The rows of plan node n, read from the files of store: a list of rows,
\* and for CubeTableExec the list of the row lists of its partitions.
RECURSIVE Evaluate(_, _)
Evaluate(n, store) ==
  LET input == Evaluate(n.children[1], store)
      projected(rows) ==
        IF n.args.projection = Nothing THEN rows
        ELSE [i \in DOMAIN rows |-> ProjectRow(rows[i], n.args.projection[1])]
  IN CASE n.op = "ParquetExec" -> projected(store[n.args.path])
       [] n.op = "MemoryExec" -> projected(Flatten(n.args.batches))
       [] n.op = "EmptyExec" -> <<>>
       [] n.op = "FilterByKeyRange" -> FilterRows(input, n.args.filter)
       [] n.op = "ProjectionExec" ->
            [i \in DOMAIN input |-> ProjectRow(input[i], n.args.exprs)]
       [] n.op = "CubeTableExec" ->
            [i \in DOMAIN n.children |-> Evaluate(n.children[i], store)]
       [] n.op = "MergeSortExec" -> MergeSorted(input, n.args.columns)
       [] n.op = "LastRowByUniqueKeyExec" ->
            LastRowByUniqueKey(input, n.args.columns)
       [] n.op = "MergeExec" -> Flatten(input)

\* ---------------------------------------- CubeTableExec::output_hints
\* Iterator::take_while(|i| i.is_some()) and the unwrap of the items.
RECURSIVE TakeWhileSome(_)
TakeWhileSome(positions) ==
  IF positions = <<>> \/ Head(positions) = None THEN <<>>
  ELSE <<Head(positions)>> \o TakeWhileSome(Tail(positions))

\* Mutant: the index columns are reported only if all of them are found.
SortColsOf_AllOrNone(positions) ==
  IF None \in Range(positions) THEN <<>> ELSE positions

\* sort_cols of the branch without sort_on.
SortColsOf(positions) == TakeWhileSome(positions)

\* OptimizerHints of a CubeTableExec.
OutputHints(exec) ==
  LET snap == exec.args.index_snapshot
      schema == exec.args.schema
      on == ColumnsWithSchema(snap.sort_on[1], schema)
      sort_cols == SortColsOf(ColumnsWithSchema(
                     Take(snap.index_cols, snap.sort_key_size), schema))
  IN [sort_order |->
        IF snap.sort_on # Nothing
          THEN (IF None \in Range(on) THEN Nothing ELSE Some(on))
        ELSE IF sort_cols # <<>> THEN Some(sort_cols)
        ELSE Nothing,
      single_value_columns |-> <<>>]

\* The CubeTableExec of a returned plan, below the unifying operators.
RECURSIVE TableExecOf(_)
TableExecOf(n) == IF n.op = "CubeTableExec" THEN n ELSE TableExecOf(n.children[1])

\* --------------------------------------------------- scans of the model
\* All sequences without repetition of elements of S, of length lo..hi.
InjectiveSeqs(S, lo, hi) ==
  UNION {{f \in [1..n -> S] : \A i, j \in 1..n : f[i] = f[j] => i = j} : n \in lo..hi}

\* The filter the router binds for partition id: one range, different for
\* every id.
FilterOf(id) == [or_filters |-> <<[start |-> id - 1, end |-> id]>>]

\* The remote paths of the files of a partition list.
RemotePaths(parts) ==
  {PartitionPath(parts[i].id) : i \in {j \in DOMAIN parts : parts[j].has_file}}
    \cup UNION {{ChunkPath(parts[i].chunks[c].id) :
                   c \in {d \in DOMAIN parts[i].chunks : ~parts[i].chunks[d].in_memory}} :
                i \in DOMAIN parts}

\* The ids of the in-memory chunks of a partition list.
MemoryChunks(parts) ==
  UNION {{parts[i].chunks[c].id :
            c \in {d \in DOMAIN parts[i].chunks : parts[i].chunks[d].in_memory}} :
         i \in DOMAIN parts}

\* Partition i of a snapshot has id i; its chunks have ids 10 i + 1, ...
ChunkLists(i) ==
  {<<>>,
   <<[id |-> 10 * i + 1, in_memory |-> TRUE]>>,
   <<[id |-> 10 * i + 1, in_memory |-> FALSE],
     [id |-> 10 * i + 2, in_memory |-> TRUE]>>}

PartitionSnapshots ==
  UNION {{[i \in 1..n |-> [id |-> i, has_file |-> file[i], chunks |-> chunks[i]]] :
            file \in [1..n -> BOOLEAN],
            chunks \in {c \in [1..n -> UNION {ChunkLists(i) : i \in 1..n}] :
                          \A i \in 1..n : c[i] \in ChunkLists(i)}} :
         n \in 0..MaxScanParts}

TableColumns == <<"a", "b", "c">>

\* A table without unique key whose index has the table's columns in the
\* table's order and sorts on the first of them.
PlainSnapshot(parts) ==
  [table_cols |-> TableColumns, unique_key |-> Nothing, seq_column |-> Nothing,
   index_cols |-> TableColumns, sort_key_size |-> 1, sort_on |-> Nothing,
   partitions |-> parts]

\* The worker's lists of assigned partitions: ascending ids, each with the
\* filter bound for it; ids of other tables' partitions may be among them.
Assignments(n) ==
  {[i \in 1..Cardinality(ids) |->
      [id |-> SetToSeq(ids)[i], filter |-> FilterOf(SetToSeq(ids)[i])]] :
     ids \in SUBSET (1..(n + 1))}

\* The batches injected for in-memory chunk c: one batch of one row.
ChunkBatches(c) == <<<<<<c, c, c>>>>>>

\* Scans that differ in the stored partitions, their files and chunks, the
\* assignment and the injected paths and batches; the files are empty.
InitScanLayout ==
  \E parts \in PartitionSnapshots :
    \E wp \in Assignments(Len(parts)) :
      \E lost \in SUBSET RemotePaths(parts) :
        \E given, empty \in SUBSET MemoryChunks(parts) :
          /\ Cardinality(lost) <= 1
          /\ empty \subseteq given
          /\ cubeTable = [index_snapshot |-> PlainSnapshot(parts),
                          remote_to_local_names |-> RemotePaths(parts) \ lost,
                          worker_partition_ids |-> wp,
                          chunk_id_to_record_batches |->
                            [c \in given |-> IF c \in empty THEN <<>>
                                             ELSE ChunkBatches(c)]]
          /\ storage = [f \in {LocalPath(q) : q \in RemotePaths(parts)} |-> <<>>]
          /\ scanProjection \in {Nothing, Some(<<2, 0>>)}

\* Scans that differ in the table, its index and the projection, over one
\* partition with a file and an on-disk chunk.
InitScanColumns ==
  LET parts == <<[id |-> 1, has_file |-> TRUE,
                  chunks |-> <<[id |-> 11, in_memory |-> FALSE]>>]>>
  IN /\ \E key \in {Nothing, Some(<<"a">>), Some(<<"b", "a">>)} :
          \E wp \in {<<>>, <<[id |-> 1, filter |-> FilterOf(1)]>>} :
          \E index_cols \in InjectiveSeqs(Range(TableColumns), 2, 3) :
            \E k \in 1..2 :
              \E sort_on \in {Nothing}
                    \cup {Some(q) : q \in InjectiveSeqs(Range(TableColumns), 1, 2)} :
                cubeTable =
                  [index_snapshot |->
                     [table_cols |-> TableColumns,
                      unique_key |-> key,
                      seq_column |-> IF key = Nothing THEN Nothing ELSE Some("c"),
                      index_cols |-> index_cols, sort_key_size |-> k,
                      sort_on |-> sort_on, partitions |-> parts],
                   remote_to_local_names |-> RemotePaths(parts),
                   worker_partition_ids |-> wp,
                   chunk_id_to_record_batches |-> <<>>]
     /\ storage = [f \in {LocalPath(q) : q \in RemotePaths(parts)} |-> <<>>]
     /\ scanProjection \in {Nothing}
           \cup {Some(q) : q \in InjectiveSeqs(0..(Len(TableColumns) - 1), 0, 3)}

InitScan ==
  /\ IdleQuery /\ IdleDialect /\ IdleCodec /\ IdleFrame /\ IdleSend
  /\ spc = "new"
  /\ scanResult = <<>>
  /\ scanRows = <<>>
  /\ scanHints = <<>>
  /\ (InitScanLayout \/ InitScanColumns)

\* async_scan(projection, ..) returns, or panics.
ScanCall ==
  /\ spc = "new"
  /\ scanResult' = AsyncScan(cubeTable, scanProjection)
  /\ spc' = IF scanResult'.status = "ok" THEN "planned" ELSE "failed"
  /\ UNCHANGED <<cubeTable, storage, scanProjection, scanRows, scanHints>>
  /\ UNCHANGED <<queryVars, dialectVars, codecVars, frameVars, sendVars>>

\* collect of the returned plan.
CollectCall ==
  /\ spc = "planned"
  /\ scanRows' = Evaluate(scanResult.plan, storage)
  /\ spc' = "collected"
  /\ UNCHANGED <<cubeTable, storage, scanProjection, scanResult, scanHints>>
  /\ UNCHANGED <<queryVars, dialectVars, codecVars, frameVars, sendVars>>

\* output_hints of the CubeTableExec of the returned plan.
OutputHintsCall ==
  /\ spc = "planned"
  /\ scanHints = <<>>
  /\ scanHints' = <<OutputHints(TableExecOf(scanResult.plan))>>
  /\ UNCHANGED <<cubeTable, storage, scanProjection, spc, scanResult, scanRows>>
  /\ UNCHANGED <<queryVars, dialectVars, codecVars, frameVars, sendVars>>

NextScan ==
  \/ ScanCall
  \/ CollectCall
  \/ OutputHintsCall

SpecScan == InitScan /\ [][NextScan]_vars

\* The scan returned a plan.
Scanned == spc \in {"planned", "collected"}

\* A sub-plan without the ProjectionExec that reorders its columns.
Unprojected(e) == IF e.op = "ProjectionExec" THEN e.children[1] ELSE e

\* The sub-plans built for files and chunks: the children of the
\* CubeTableExec other than EmptyExec.
SubPlans ==
  SelectSeq(TableExecOf(scanResult.plan).children, LAMBDA e : e.op # "EmptyExec")

\* The partition snapshots whose id occurs in worker_partition_ids.
AssignedSnapshots ==
  {i \in DOMAIN cubeTable.index_snapshot.partitions :
     \E w \in DOMAIN cubeTable.worker_partition_ids :
       cubeTable.worker_partition_ids[w].id = cubeTable.index_snapshot.partitions[i].id}

\* Sub-plan e is a FilterByKeyRange, with filter f and the index's sort-key
\* size, directly over the reader src.
FiltersSource(e, f, src) ==
  /\ Unprojected(e).op = "FilterByKeyRange"
  /\ Unprojected(e).args.filter = f
  /\ Unprojected(e).args.key_len = cubeTable.index_snapshot.sort_key_size
  /\ Unprojected(e).children = <<src>>

\* The readers of the file of partition part and of chunk ch.
IsFileReader(src, part) ==
  src.op = "ParquetExec" /\ src.args.path = LocalPath(PartitionPath(part.id))
IsChunkReader(src, ch) ==
  IF ch.in_memory
    THEN /\ src.op = "MemoryExec"
         /\ ch.id \in DOMAIN cubeTable.chunk_id_to_record_batches
         /\ src.args.batches = cubeTable.chunk_id_to_record_batches[ch.id]
    ELSE src.op = "ParquetExec" /\ src.args.path = LocalPath(ChunkPath(ch.id))

\* The number of sub-plans reading src under the filter bound for id.
ReadersUnder(id, isReader(_)) ==
  Cardinality({e \in DOMAIN SubPlans :
     /\ isReader(Unprojected(SubPlans[e]).children[1])
     /\ \E w \in DOMAIN cubeTable.worker_partition_ids :
          /\ cubeTable.worker_partition_ids[w].id = id
          /\ FiltersSource(SubPlans[e], cubeTable.worker_partition_ids[w].filter,
                           Unprojected(SubPlans[e]).children[1])})

\* The number of files and chunks of the assigned partition snapshots.
AssignedUnits ==
  LET parts == cubeTable.index_snapshot.partitions
      units(i) == (IF parts[i].has_file THEN 1 ELSE 0) + Len(parts[i].chunks)
      sum[S \in SUBSET DOMAIN parts] ==
        IF S = {} THEN 0
        ELSE LET i == CHOOSE i \in S : TRUE IN units(i) + sum[S \ {i}]
  IN sum[AssignedSnapshots]

\* C16: a scan builds sub-plans only for the partition snapshots whose id
\* occurs in worker_partition_ids, and for each of them exactly one for the
\* partition's file, when it has one, and exactly one per chunk, each a
\* FilterByKeyRange with that partition's RowFilter and the index's
\* sort-key size as key length.
C16_SubPlansOfAssigned ==
  Scanned =>
    LET parts == cubeTable.index_snapshot.partitions
    IN /\ Len(SubPlans) = AssignedUnits
       /\ \A i \in AssignedSnapshots :
            /\ parts[i].has_file =>
                 ReadersUnder(parts[i].id, LAMBDA src : IsFileReader(src, parts[i])) = 1
            /\ \A c \in DOMAIN parts[i].chunks :
                 ReadersUnder(parts[i].id,
                              LAMBDA src : IsChunkReader(src, parts[i].chunks[c])) = 1
       /\ \A i \in DOMAIN parts \ AssignedSnapshots :
            \A e \in DOMAIN SubPlans :
              LET src == Unprojected(SubPlans[e]).children[1]
              IN /\ ~IsFileReader(src, parts[i])
                 /\ \A c \in DOMAIN parts[i].chunks :
                      ~IsChunkReader(src, parts[i].chunks[c])

C16_Witness ==
  /\ Scanned
  /\ Len(cubeTable.index_snapshot.partitions) = 2
  /\ AssignedSnapshots = {2}
  /\ cubeTable.index_snapshot.partitions[1].has_file
  /\ cubeTable.index_snapshot.partitions[2].has_file
  /\ Len(cubeTable.index_snapshot.partitions[2].chunks) = 2
  /\ Len(SubPlans) = 3
  /\ scanProjection # Nothing

\* The names of the columns a scan reads: the table's columns without a
\* projection, else the projected columns followed by the unique-key and
\* sequence columns not among them.
ReadColumns ==
  LET snap == cubeTable.index_snapshot
      asked == [i \in DOMAIN scanProjection[1] |->
                  snap.table_cols[scanProjection[1][i] + 1]]
      key == IF snap.unique_key = Nothing THEN <<>>
             ELSE snap.unique_key[1] \o snap.seq_column
  IN IF scanProjection = Nothing THEN snap.table_cols
     ELSE asked \o SelectSeq(key, LAMBDA c : c \notin Range(asked))

\* C17: the CubeTableExec built by a scan has at least one child: without
\* any sub-plan its only child is an EmptyExec of the projected schema, so
\* its output partition count is never 0; otherwise its children are the
\* sub-plans and the partition count is their number.
C17_NeverWithoutChild ==
  Scanned =>
    LET exec == TableExecOf(scanResult.plan)
    IN /\ Len(exec.children) >= 1
       /\ PartitionCount(exec) >= 1
       /\ AssignedUnits = 0 =>
            /\ exec.children = <<EmptyExec(ReadColumns)>>
            /\ PartitionCount(exec) = 1
       /\ AssignedUnits > 0 =>
            /\ PartitionCount(exec) = AssignedUnits
            /\ \A i \in DOMAIN exec.children : exec.children[i].op # "EmptyExec"

C17_Witness ==
  /\ Scanned
  /\ AssignedSnapshots # {}
  /\ AssignedUnits = 0
  /\ scanProjection # Nothing
  /\ TableExecOf(scanResult.plan).children[1].op = "EmptyExec"
  /\ PartitionCount(TableExecOf(scanResult.plan)) = 1

\* The positions in the schema of the CubeTableExec of the named columns.
PositionsOf(names) ==
  [i \in DOMAIN names |->
     FindPosition(TableExecOf(scanResult.plan).args.schema, names[i])]

\* The columns of the index's sort key, and how many leading ones of them
\* the schema of the CubeTableExec holds.
SortKeyColumns ==
  Take(cubeTable.index_snapshot.index_cols, cubeTable.index_snapshot.sort_key_size)
PresentPrefix ==
  CHOOSE n \in 0..Len(SortKeyColumns) :
    /\ \A i \in 1..n : SortKeyColumns[i] \in Range(ReadColumns)
    /\ n < Len(SortKeyColumns) => SortKeyColumns[n + 1] \notin Range(ReadColumns)

\* output_hints was asked and the snapshot has, has not, a sort_on.
HintsWithSortOn == scanHints # <<>> /\ cubeTable.index_snapshot.sort_on # Nothing
HintsWithoutSortOn == scanHints # <<>> /\ cubeTable.index_snapshot.sort_on = Nothing

\* With sort_on the hints report the positions of the sort_on columns.
SortOnReported ==
  (HintsWithSortOn /\ Range(cubeTable.index_snapshot.sort_on[1]) \subseteq Range(ReadColumns))
    => scanHints[1].sort_order = Some(PositionsOf(cubeTable.index_snapshot.sort_on[1]))

\* C20 as stated: output_hints reports the positions of the sort_on columns
\* when the snapshot has a sort_on, otherwise the positions of the first K
\* index columns only if all K are in the output schema, and no sort order
\* when they are not all present.
C20_AllOrNothing ==
  /\ SortOnReported
  /\ HintsWithoutSortOn =>
       scanHints[1].sort_order =
         IF PresentPrefix = Len(SortKeyColumns) THEN Some(PositionsOf(SortKeyColumns))
         ELSE Nothing

\* C20 amended: output_hints reports the positions of the sort_on columns
\* when the snapshot has a sort_on (no sort order if one of them is not in
\* the schema); otherwise the positions of the leading columns of the
\* index's sort key that are in the output schema, up to the first one that
\* is not, and no sort order only when the first one is not.
C20_PresentPrefix ==
  /\ SortOnReported
  /\ (HintsWithSortOn
        /\ ~(Range(cubeTable.index_snapshot.sort_on[1]) \subseteq Range(ReadColumns)))
       => scanHints[1].sort_order = Nothing
  /\ HintsWithoutSortOn =>
       scanHints[1].sort_order =
         IF PresentPrefix > 0
           THEN Some(PositionsOf(SubSeq(SortKeyColumns, 1, PresentPrefix)))
         ELSE Nothing

C20_Witness ==
  /\ HintsWithoutSortOn
  /\ Len(SortKeyColumns) = 2
  /\ PresentPrefix = 1
  /\ scanHints[1].sort_order # Nothing
  /\ Len(scanHints[1].sort_order[1]) = 1

\* ------------------------------------------------ scans of stored rows
\* The partitions read: partition 1 with a file and an in-memory chunk,
\* partition 2 with a file.
ReadPartitions ==
  <<[id |-> 1, has_file |-> TRUE, chunks |-> <<[id |-> 11, in_memory |-> TRUE]>>],
    [id |-> 2, has_file |-> TRUE, chunks |-> <<>>]>>

\* Tables without unique key: the index has the table's columns in the
\* table's order or in another one, a sort key of one or two columns, and
\* sort_on, when present, names leading columns of the sort key.
PlainSnapshots ==
  {[table_cols |-> TableColumns, unique_key |-> Nothing, seq_column |-> Nothing,
    index_cols |-> cols, sort_key_size |-> k, sort_on |-> on,
    partitions |-> ReadPartitions] :
     cols \in {TableColumns, <<"b", "c", "a">>},
     k \in 1..2,
     on \in {Nothing, Some(<<"a">>), Some(<<"b">>), Some(<<"a", "b">>), Some(<<"b", "c">>)}}

\* Tables with unique key (k) and sequence column s: the sort key of the
\* index is the unique key followed by the sequence column.
UniqueSnapshots ==
  {[table_cols |-> cols[1], unique_key |-> Some(<<"k">>), seq_column |-> Some("s"),
    index_cols |-> cols[2], sort_key_size |-> 2, sort_on |-> on,
    partitions |-> ReadPartitions] :
     cols \in {<<<<"k", "s">>, <<"k", "s">>>>,
               <<<<"v", "k", "s">>, <<"k", "s", "v">>>>},
     on \in {Nothing, Some(<<"k">>)}}

ReadSnapshots ==
  {snap \in PlainSnapshots :
     snap.sort_on = Nothing
       \/ \E j \in 1..snap.sort_key_size : snap.sort_on[1] = Take(snap.index_cols, j)}
    \cup UniqueSnapshots

\* The projections asked of a table of n columns; none is asked only of a
\* table whose index has the table's column order.
ReadProjections(snap) ==
  (IF snap.index_cols = snap.table_cols THEN {Nothing} ELSE {})
    \cup {Some(q) : q \in {<<0>>, <<1, 0>>} \cup
                         (IF Len(snap.table_cols) > 2 THEN {<<2, 0, 1>>, <<1, 2>>} ELSE {})}

\* The stored rows, in the column order of an index of n columns: all
\* pairs of a first and a second column, the third column a function of
\* them.
StoredRows(n) ==
  {IF n = 2 THEN <<x, y>> ELSE <<x, y, 10 * x + y>> : x \in {1, 2}, y \in {1, 2, 3}}

\* Row lists of at most m stored rows, no row twice, sorted by the first k
\* columns.
SortedRowLists(n, k, m) ==
  {rows \in InjectiveSeqs(StoredRows(n), 0, m) :
     \A i \in 1..(Len(rows) - 1) :
       ~KeyLess(Take(rows[i + 1], k), Take(rows[i], k))}

\* A filter of two ranges that together hold every key.
CoveringFilter ==
  [or_filters |-> <<[start |-> None, end |-> 2], [start |-> 2, end |-> None]>>]

InitRead ==
  /\ IdleQuery /\ IdleDialect /\ IdleCodec /\ IdleFrame /\ IdleSend
  /\ spc = "new"
  /\ scanResult = <<>>
  /\ scanRows = <<>>
  /\ scanHints = <<>>
  /\ \E snap \in ReadSnapshots :
       LET n == Len(snap.index_cols)
           k == snap.sort_key_size
       IN \E file \in SortedRowLists(n, k, MaxFileRows) :
            \E chunk \in SortedRowLists(n, k, 1) :
              \E other \in {<<>>, <<CHOOSE r \in StoredRows(n) : r[1] = 1 /\ r[2] = 2>>,
                             <<CHOOSE r \in StoredRows(n) : r[1] = 2 /\ r[2] = 3>>} :
                \E wp \in {<<[id |-> 1, filter |-> CoveringFilter]>>,
                            <<[id |-> 1, filter |-> CoveringFilter],
                              [id |-> 2, filter |-> [or_filters |-> <<DefaultRange>>]]>>} :
                  /\ (Len(wp) = 1 => other = <<>>)
                  /\ cubeTable = [index_snapshot |-> snap,
                                  remote_to_local_names |-> RemotePaths(ReadPartitions),
                                  worker_partition_ids |-> wp,
                                  chunk_id_to_record_batches |-> [c \in {11} |-> <<chunk>>]]
                  /\ storage = [f \in {LocalPath(q) : q \in RemotePaths(ReadPartitions)} |->
                                  IF f = LocalPath(PartitionPath(1)) THEN file ELSE other]
                  /\ scanProjection \in ReadProjections(snap)

NextRead ==
  \/ ScanCall
  \/ CollectCall

SpecRead == InitRead /\ [][NextRead]_vars

\* The names of the columns of the returned plan: the caller's projection
\* when one is given for a table with unique key, else the columns read.
OutputColumns ==
  LET snap == cubeTable.index_snapshot
  IN IF snap.unique_key # Nothing /\ scanProjection # Nothing
       THEN [i \in DOMAIN scanProjection[1] |->
               snap.table_cols[scanProjection[1][i] + 1]]
     ELSE ReadColumns

\* The values of an output row in the named columns.
OutputKey(r, names) ==
  [i \in DOMAIN names |-> r[FindPosition(OutputColumns, names[i]) + 1]]

\* Every file and chunk the scan was given is sorted by the index sort key.
StoredSorted ==
  LET k == cubeTable.index_snapshot.sort_key_size
      sorted(rows) == \A i \in 1..(Len(rows) - 1) :
                        ~KeyLess(Take(rows[i + 1], k), Take(rows[i], k))
  IN /\ \A f \in DOMAIN storage : sorted(storage[f])
     /\ \A c \in DOMAIN cubeTable.chunk_id_to_record_batches :
          sorted(Flatten(cubeTable.chunk_id_to_record_batches[c]))

AssignedRows ==
  LET parts == cubeTable.index_snapshot.partitions
  IN UNION {{storage[LocalPath(PartitionPath(parts[i].id))]}
              \cup {Flatten(cubeTable.chunk_id_to_record_batches[parts[i].chunks[c].id]) :
                      c \in DOMAIN parts[i].chunks} :
            i \in AssignedSnapshots}

\* The value of a stored row in a named column.
StoredValue(r, name) ==
  r[FindPosition(cubeTable.index_snapshot.index_cols, name) + 1]

\* The rows stored with unique key u in the assigned files and chunks.
StoredWith(u) ==
  UNION {{rows[i] : i \in {j \in DOMAIN rows : StoredValue(rows[j], "k") = u}} :
         rows \in AssignedRows}

\* A stored row in the columns of the output.
AsOutput(r) == [i \in DOMAIN OutputColumns |-> StoredValue(r, OutputColumns[i])]

DataTypeOf(name, scale, unit, tz) ==
  [name |-> name, scale |-> scale, unit |-> unit, tz |-> tz]

PlainType(name) == DataTypeOf(name, 0, "", FALSE)

Int64Decimal(scale) == DataTypeOf("Int64Decimal", scale, "", FALSE)

Timestamp(unit, tz) == DataTypeOf("Timestamp", 0, unit, tz)

IntegerNames ==
  {"Int8", "Int16", "Int32", "Int64", "UInt8", "UInt16", "UInt32", "UInt64"}

\* A ColumnType; scale and precision are 0 except for Decimal.
ColumnType(name, scale, precision) ==
  [name |-> name, scale |-> scale, precision |-> precision]

\* arrow_to_column_type: Some(ColumnType), or Nothing for Err(internal
\* "unsupported type").
ArrowToColumnType(arrow_type) ==
  CASE arrow_type.name = "Binary" -> Some(ColumnType("Bytes", 0, 0))
    [] arrow_type.name \in {"Utf8", "LargeUtf8"} -> Some(ColumnType("String", 0, 0))
    [] arrow_type.name = "Timestamp" -> Some(ColumnType("Timestamp", 0, 0))
    [] arrow_type.name \in {"Float16", "Float64"} -> Some(ColumnType("Float", 0, 0))
    [] arrow_type.name = "Int64Decimal" ->
         Some(ColumnType("Decimal", arrow_type.scale, 18))
    [] arrow_type.name = "Boolean" -> Some(ColumnType("Boolean", 0, 0))
    [] arrow_type.name \in IntegerNames -> Some(ColumnType("Int", 0, 0))
    [] OTHER -> Nothing

\* A TableValue: its variant and, except for Null, its payload.
TableValue(tag, v) == [tag |-> tag, v |-> v]

Null == TableValue("Null", Nothing)

\* The arms of the match on array.data_type() in batch_to_dataframe; every
\* other type reaches panic!("Unsupported data type").
HasConversion(t) ==
  \/ t.name \in {"UInt64", "Int64", "Float64", "Binary", "Utf8", "Boolean"}
  \/ t.name = "Int64Decimal" /\ t.scale \in {0, 1, 2, 3, 4, 5, 10}
  \/ t.name = "Timestamp" /\ t.unit \in {"Microsecond", "Nanosecond"} /\ ~t.tz

\* One entry of an array of a type with a conversion: Null for a null
\* entry, else the TableValue of the arm of its type.
ConvertValue(t, entry) ==
  IF Len(entry) = 0 THEN Null
  ELSE CASE t.name \in {"UInt64", "Int64"} -> TableValue("Int", entry)
         [] t.name = "Float64" -> TableValue("Float", entry)
         [] t.name = "Int64Decimal" -> TableValue("Decimal", entry)
         [] t.name = "Timestamp" /\ t.unit = "Microsecond" ->
              TableValue("Timestamp", Some(entry[1] * 1000))
         [] t.name = "Timestamp" /\ t.unit = "Nanosecond" ->
              TableValue("Timestamp", entry)
         [] t.name = "Binary" -> TableValue("Bytes", entry)
         [] t.name = "Utf8" -> TableValue("String", entry)
         [] t.name = "Boolean" -> TableValue("Boolean", entry)

\* The rows of one batch, each with one value per column in column order.
BatchRows(batch) ==
  [i \in 1..NumRows(batch) |->
     [c \in 1..Len(batch.columns) |->
        ConvertValue(batch.schema[c].type, batch.columns[c][i])]]

\* Column::new(name, type, index) for each field of a schema whose types
\* arrow_to_column_type accepts.
ColumnsOf(schema) ==
  [i \in 1..Len(schema) |->
     [name |-> schema[i].name,
      column_type |-> ArrowToColumnType(schema[i].type)[1],
      index |-> i - 1]]

FrameOk(cols, rows) == [status |-> "ok", columns |-> cols, rows |-> rows, message |-> ""]

FrameFailure(status, message) ==
  [status |-> status, columns |-> <<>>, rows |-> <<>>, message |-> message]

\* batch_to_dataframe: the columns are taken from the first batch's schema
\* (an unaccepted type returns the error), batches of zero rows are
\* skipped, a batch with rows and an array of a type without a conversion
\* panics, and the rows of the batches are appended in order.
BatchToDataframe(bs) ==
  IF bs = <<>> THEN FrameOk(<<>>, <<>>)
  ELSE IF \E c \in 1..Len(bs[1].schema) :
            ArrowToColumnType(bs[1].schema[c].type) = Nothing
    THEN FrameFailure("error", "unsupported type")
  ELSE IF \E b \in 1..Len(bs) :
            /\ NumRows(bs[b]) > 0
            /\ \E c \in 1..Len(bs[b].schema) : ~HasConversion(bs[b].schema[c].type)
    THEN FrameFailure("panic", "Unsupported data type")
  ELSE FrameOk(ColumnsOf(bs[1].schema),
               Flatten([b \in 1..Len(bs) |-> BatchRows(bs[b])]))

\* ---- inputs of the conversion
\* The column types of the inputs: every type arrow_to_column_type accepts
\* (decimals of five scales, timestamps of three units and one with a time
\* zone) and two it rejects.
FrameTypes ==
  {PlainType(n) : n \in IntegerNames}
    \cup {PlainType(n) : n \in {"Float16", "Float64", "Float32", "Date32",
                                "Utf8", "LargeUtf8", "Binary", "Boolean"}}
    \cup {Int64Decimal(k) : k \in {0, 2, 5, 6, 10}}
    \cup {Timestamp(u, FALSE) : u \in {"Millisecond", "Microsecond", "Nanosecond"}}
    \cup {Timestamp("Microsecond", TRUE)}

\* The entries the inputs hold in an array of type t: null, and one value.
ArrayEntries(t) ==
  LET value == CASE t.name \in {"Utf8", "LargeUtf8"} -> "x"
                 [] t.name = "Binary" -> <<1>>
                 [] t.name = "Boolean" -> TRUE
                 [] OTHER -> 2
  IN {Nothing, Some(value)}

\* One column of any type, or a column of any type before or after an
\* Int64 or Utf8 column.
FrameSchemas ==
  LET Field(n, t) == [name |-> n, type |-> t] IN
  {<<Field("a", t)>> : t \in FrameTypes}
    \cup {<<Field("a", t), Field("b", PlainType(n))>> :
            t \in FrameTypes, n \in {"Int64", "Utf8"}}
    \cup {<<Field("a", PlainType(n)), Field("b", t)>> :
            t \in FrameTypes, n \in {"Int64", "Utf8"}}

\* The batches of a schema (of one or two fields) with at most
\* MaxFrameRows rows.
FrameBatches(schema) ==
  LET Arrays(t, n) == [1..n -> ArrayEntries(t)] IN
  UNION {IF Len(schema) = 1
           THEN {[schema |-> schema, columns |-> <<a>>] :
                   a \in Arrays(schema[1].type, n)}
           ELSE {[schema |-> schema, columns |-> <<a, b>>] :
                   a \in Arrays(schema[1].type, n), b \in Arrays(schema[2].type, n)} :
         n \in 0..MaxFrameRows}

InitFrame ==
  /\ IdleQuery /\ IdleDialect /\ IdleCodec /\ IdleScan /\ IdleSend
  /\ fpc = "new" /\ frame = <<>>
  /\ \E schema \in FrameSchemas : \E n \in 0..MaxFrameBatches :
       frameIn \in [1..n -> FrameBatches(schema)]

\* One call of batch_to_dataframe.
BatchToDataframeCall ==
  /\ fpc = "new"
  /\ frame' = BatchToDataframe(frameIn)
  /\ fpc' = "done"
  /\ UNCHANGED <<queryVars, dialectVars, codecVars, scanVars, sendVars, frameIn>>

NextFrame == BatchToDataframeCall

SpecFrame == InitFrame /\ [][NextFrame]_vars

\* The column types of the mapping table: every integer width, Float16 and
\* Float64, decimals of any scale, timestamps in microseconds and in
\* nanoseconds, Utf8 and LargeUtf8, Binary and Boolean.
InMappingTable(t) ==
  \/ t.name \in IntegerNames
  \/ t.name \in {"Float16", "Float64", "Utf8", "LargeUtf8", "Binary", "Boolean"}
  \/ t.name = "Int64Decimal"
  \/ t.name = "Timestamp" /\ t.unit \in {"Microsecond", "Nanosecond"} /\ ~t.tz

\* The row value the mapping table gives an entry of a column of type t.
MappedValue(t, entry) ==
  IF Len(entry) = 0 THEN Null
  ELSE CASE t.name \in IntegerNames -> TableValue("Int", entry)
         [] t.name \in {"Float16", "Float64"} -> TableValue("Float", entry)
         [] t.name = "Int64Decimal" -> TableValue("Decimal", entry)
         [] t.name = "Timestamp" /\ t.unit = "Microsecond" ->
              TableValue("Timestamp", Some(entry[1] * 1000))
         [] t.name = "Timestamp" /\ t.unit = "Nanosecond" ->
              TableValue("Timestamp", entry)
         [] t.name \in {"Utf8", "LargeUtf8"} -> TableValue("String", entry)
         [] t.name = "Binary" -> TableValue("Bytes", entry)
         [] t.name = "Boolean" -> TableValue("Boolean", entry)

\* One mapped row per input row, batch after batch.
MappedRows(bs) ==
  Flatten([b \in 1..Len(bs) |->
             [i \in 1..NumRows(bs[b]) |->
                [c \in 1..Len(bs[b].columns) |->
                   MappedValue(bs[b].schema[c].type, bs[b].columns[c][i])]]])

Converted == fpc = "done"

AllInMappingTable ==
  \A b \in 1..Len(frameIn) : \A c \in 1..Len(frameIn[b].schema) :
    InMappingTable(frameIn[b].schema[c].type)

\* C19: batch_to_dataframe converts batches whose columns are all of types
\* of the mapping table to a DataFrame with one row per input row in batch
\* order, each entry converted as the table says and a null entry to Null.
C19_EveryTableType ==
  (Converted /\ AllInMappingTable) =>
     /\ frame.status = "ok"
     /\ frame.rows = MappedRows(frameIn)

\* ------------------------------------------- the shape of a scan's plan
\* The names of the fields of schema at the positions (from 0).
NamesAt(schema, positions) == [i \in DOMAIN positions |-> schema[positions[i] + 1]]

\* The names of the columns the caller's projection asks for.
AskedColumns ==
  [i \in DOMAIN scanProjection[1] |->
     cubeTable.index_snapshot.table_cols[scanProjection[1][i] + 1]]

\* Node n is operator op over the single child below, its columns (args
\* field exprs or columns) naming the given columns of the scan's schema.
IsProjectionOf(n, names, below) ==
  /\ n.op = "ProjectionExec"
  /\ NamesAt(TableExecOf(scanResult.plan).args.schema, n.args.exprs) = names
  /\ n.children = <<below>>
IsOver(n, op, names, below) ==
  /\ n.op = op
  /\ NamesAt(TableExecOf(scanResult.plan).args.schema, n.args.columns) = names
  /\ n.children = <<below>>

\* C21: the plan a scan returns unifies the sub-plans, the children of its
\* CubeTableExec, by exactly one of three shapes: with a unique key a
\* MergeSort on the first K index columns under a LastRowByUniqueKey on the
\* unique-key columns, under a Projection to the caller's columns when a
\* projection was given; else with sort_on a MergeSort on the sort_on
\* columns; else a Merge.
C21_UnifyShape ==
  Scanned =>
    LET snap == cubeTable.index_snapshot
        plan == scanResult.plan
        exec == TableExecOf(plan)
        last == IF scanProjection # Nothing THEN plan.children[1] ELSE plan
    IN /\ exec.op = "CubeTableExec"
       /\ IF snap.unique_key # Nothing
            THEN /\ scanProjection # Nothing => IsProjectionOf(plan, AskedColumns, last)
                 /\ IsOver(last, "LastRowByUniqueKeyExec", snap.unique_key[1],
                           last.children[1])
                 /\ IsOver(last.children[1], "MergeSortExec", SortKeyColumns, exec)
          ELSE IF snap.sort_on # Nothing
            THEN IsOver(plan, "MergeSortExec", snap.sort_on[1], exec)
          ELSE plan.op = "MergeExec" /\ plan.children = <<exec>>

C21_Witness ==
  /\ Scanned
  /\ cubeTable.index_snapshot.unique_key = Some(<<"b", "a">>)
  /\ cubeTable.index_snapshot.sort_on # Nothing
  /\ cubeTable.index_snapshot.index_cols = <<"a", "b", "c">>
  /\ scanProjection = Some(<<1>>)
  /\ scanResult.plan.op = "ProjectionExec"
  /\ scanResult.plan.children[1].op = "LastRowByUniqueKeyExec"
  /\ Len(SubPlans) = 2

\* The names of the columns node n delivers. A reader delivers the index
\* columns at its projection in the order of the file, whatever the order
\* of the projection (the comment at lines 357-358); a ProjectionExec those
\* of its input at its expressions' positions; the CubeTableExec those of
\* its declared schema.
RECURSIVE DeliveredColumns(_)
DeliveredColumns(n) ==
  CASE n.op \in {"ParquetExec", "MemoryExec"} ->
         IF n.args.projection = Nothing THEN cubeTable.index_snapshot.index_cols
         ELSE NamesAt(cubeTable.index_snapshot.index_cols,
                      SortAscending(n.args.projection[1]))
    [] n.op = "ProjectionExec" ->
         NamesAt(DeliveredColumns(n.children[1]), n.args.exprs)
    [] n.op \in {"CubeTableExec", "EmptyExec"} -> n.args.schema
    [] OTHER -> DeliveredColumns(n.children[1])

\* A scan with a projection of a table with unique key returned a plan.
UniqueProjected ==
  /\ Scanned
  /\ cubeTable.index_snapshot.unique_key # Nothing
  /\ scanProjection # Nothing

\* C22: for a table with unique key and a given projection the columns
\* read are the caller's columns followed by the unique-key columns and the
\* sequence column not among them, none twice; every sub-plan reads with
\* the index positions ascending and delivers the columns read in that
\* augmented order; the returned plan delivers the caller's columns in the
\* caller's order.
C22_AugmentedProjection ==
  UniqueProjected =>
    LET exec == TableExecOf(scanResult.plan)
    IN /\ exec.args.schema = ReadColumns
       /\ Cardinality(Range(exec.args.schema)) = Len(exec.args.schema)
       /\ \A e \in DOMAIN SubPlans :
            LET reader == Unprojected(SubPlans[e]).children[1]
            IN /\ reader.args.projection # Nothing
               /\ reader.args.projection[1] = SortAscending(reader.args.projection[1])
               /\ DeliveredColumns(SubPlans[e]) = ReadColumns
       /\ DeliveredColumns(scanResult.plan) = AskedColumns

C22_Witness ==
  /\ UniqueProjected
  /\ cubeTable.index_snapshot.unique_key = Some(<<"a">>)
  /\ cubeTable.index_snapshot.index_cols = <<"a", "c", "b">>
  /\ scanProjection = Some(<<1, 0>>)
  /\ Len(SubPlans) = 2
  /\ SubPlans[1].op = "ProjectionExec"
  /\ TableExecOf(scanResult.plan).args.schema = <<"b", "a", "c">>

\* ------------------- ClusterSendExec: with_changed_schema, with_new_children
\* A ClusterSendExec: its fields.
ClusterSendExec(schema, parts, cluster, serialized_plan, input, use_streaming) ==
  [schema |-> schema, partitions |-> parts, cluster |-> cluster,
   serialized_plan |-> serialized_plan, input_for_optimizations |-> input,
   use_streaming |-> use_streaming]

\* Mutant: the copy does not take over the use_streaming flag.
WithChangedSchema_NotStreaming(self, schema, input_for_optimizations) ==
  ClusterSendExec(schema, self.partitions, self.cluster, self.serialized_plan,
                  input_for_optimizations, FALSE)

\* with_changed_schema(&self, schema, input_for_optimizations)
WithChangedSchema(self, schema, input_for_optimizations) ==
  ClusterSendExec(schema, self.partitions, self.cluster, self.serialized_plan,
                  input_for_optimizations, self.use_streaming)

\* with_new_children(&self, children) for one child
WithNewChildren(self, children) ==
  ClusterSendExec(self.schema, self.partitions, self.cluster, self.serialized_plan,
                  children[1], self.use_streaming)

\* ---- inputs
SendSchemas == {"s1", "s2"}
SendInputs == {"i1", "i2"}

\* Worker lists as assign_nodes leaves them.
SendPartitions ==
  {[e \in 1..n |-> [node |-> SortedWorkers[e],
                    filters |-> <<[id |-> e, range |-> DefaultRange]>>]] :
     n \in 0..MaxWorkers}

InitSend ==
  /\ IdleQuery /\ IdleDialect /\ IdleCodec /\ IdleScan /\ IdleFrame
  /\ \E schema \in SendSchemas, parts \in SendPartitions,
        plan \in {"p1", "p2"}, input \in SendInputs, streaming \in BOOLEAN :
       sendExecs = <<ClusterSendExec(schema, parts, "cluster", plan, input, streaming)>>
  /\ sendCalls = <<>>
  /\ sendPc = "ready"

\* with_changed_schema on operator i: the returned operator is a new one.
WithChangedSchemaCall(i, schema, input) ==
  /\ sendPc = "ready"
  /\ Len(sendExecs) <= MaxCopies
  /\ sendExecs' = Append(sendExecs, WithChangedSchema(sendExecs[i], schema, input))
  /\ sendCalls' = Append(sendCalls,
       [method |-> "with_changed_schema", self |-> i, before |-> sendExecs[i],
        schema |-> schema, children |-> <<input>>])
  /\ UNCHANGED <<queryVars, dialectVars, codecVars, scanVars, frameVars, sendPc>>

\* with_new_children on operator i: panics unless there is one child.
WithNewChildrenCall(i, children) ==
  /\ sendPc = "ready"
  /\ Len(sendExecs) <= MaxCopies
  /\ IF Len(children) # 1
       THEN /\ sendPc' = "panicked"
            /\ UNCHANGED sendExecs
       ELSE /\ sendExecs' = Append(sendExecs, WithNewChildren(sendExecs[i], children))
            /\ UNCHANGED sendPc
  /\ sendCalls' = Append(sendCalls,
       [method |-> "with_new_children", self |-> i, before |-> sendExecs[i],
        schema |-> "", children |-> children])
  /\ UNCHANGED <<queryVars, dialectVars, codecVars, scanVars, frameVars>>

NextSend ==
  \/ \E i \in DOMAIN sendExecs : \E schema \in SendSchemas, input \in SendInputs :
       WithChangedSchemaCall(i, schema, input)
  \/ \E i \in DOMAIN sendExecs :
       \E children \in UNION {[1..n -> SendInputs] : n \in 0..2} :
         WithNewChildrenCall(i, children)

SpecSend == InitSend /\ [][NextSend]_vars

\* The fields a copy takes over from the operator it was made from.
SameAssignment(copy, self) ==
  /\ copy.partitions = self.partitions
  /\ copy.cluster = self.cluster
  /\ copy.serialized_plan = self.serialized_plan
  /\ copy.use_streaming = self.use_streaming

\* Call c returned; the operator it returned is the (c + 1)-th, a failed
\* call being the last.
Returned(c) == c + 1 \in DOMAIN sendExecs

\* C23: the operator with_changed_schema or with_new_children returns has
\* the worker list with its (partition id, RowRange) lists, the cluster,
\* the serialized plan and the use_streaming flag of the operator it was
\* called on; its child is the one passed, its schema the one passed to
\* with_changed_schema and the original's for with_new_children; and the
\* operator it was called on is as it was before the call.
C23_CopyKeepsAssignment ==
  \A c \in DOMAIN sendCalls :
    /\ sendExecs[sendCalls[c].self] = sendCalls[c].before
    /\ Returned(c) =>
         /\ SameAssignment(sendExecs[c + 1], sendCalls[c].before)
         /\ sendExecs[c + 1].input_for_optimizations = sendCalls[c].children[1]
         /\ sendExecs[c + 1].schema =
              IF sendCalls[c].method = "with_changed_schema" THEN sendCalls[c].schema
              ELSE sendCalls[c].before.schema

C23_Witness ==
  /\ Len(sendCalls) = 2
  /\ sendCalls[1].method = "with_changed_schema"
  /\ sendCalls[2].method = "with_new_children"
  /\ sendCalls[2].self = 2
  /\ Returned(2)
  /\ sendExecs[1].use_streaming
  /\ Len(sendExecs[1].partitions) = 2
  /\ sendExecs[3].schema # sendExecs[1].schema
  /\ sendExecs[3].input_for_optimizations # sendExecs[1].input_for_optimizations

\* -------------------------------------------- injection failures of a scan
\* async_scan returned or panicked.
ScanEnded == spc \in {"planned", "collected", "failed"}

\* An assigned partition's file or on-disk chunk has no remote-to-local
\* mapping.
MissingMapping ==
  \E i \in AssignedSnapshots :
    LET part == cubeTable.index_snapshot.partitions[i]
    IN \/ part.has_file /\ PartitionPath(part.id) \notin cubeTable.remote_to_local_names
       \/ \E c \in DOMAIN part.chunks :
            /\ ~part.chunks[c].in_memory
            /\ ChunkPath(part.chunks[c].id) \notin cubeTable.remote_to_local_names

\* An in-memory chunk of an assigned partition has no injected batches.
MissingBatches ==
  \E i \in AssignedSnapshots :
    LET part == cubeTable.index_snapshot.partitions[i]
    IN \E c \in DOMAIN part.chunks :
         /\ part.chunks[c].in_memory
         /\ part.chunks[c].id \notin DOMAIN cubeTable.chunk_id_to_record_batches

\* C24: a scan with an assigned partition whose file or on-disk chunk has
\* no remote-to-local mapping, or whose in-memory chunk has no injected
\* batches, returns an error to its caller and no plan.
C24_InjectionErrors ==
  (ScanEnded /\ (MissingMapping \/ MissingBatches)) =>
     /\ scanResult.status = "error"
     /\ scanResult.plan = NoPlan

\* ------------------------------------------ MySqlDialectWithBackTicks
\* A char is its code point; a Rust char is never a surrogate.
\* is_delimited_identifier_start: '"' (34) or '`' (96).
IsDelimitedIdentifierStart(ch) == ch = 34 \/ ch = 96

\* Mutant: every code point from U+0080 starts an identifier.
IsIdentifierStart_Unbounded(ch) ==
  \/ ch >= 97 /\ ch <= 122
  \/ ch >= 65 /\ ch <= 90
  \/ ch = 95
  \/ ch = 36
  \/ ch >= 128

\* is_identifier_start: 'a'..'z' (97..122), 'A'..'Z' (65..90), '_' (95),
\* '$' (36), '\u{0080}'..'\u{ffff}' (128..65535).
IsIdentifierStart(ch) ==
  \/ ch >= 97 /\ ch <= 122
  \/ ch >= 65 /\ ch <= 90
  \/ ch = 95
  \/ ch = 36
  \/ ch >= 128 /\ ch <= 65535

\* is_identifier_part: an identifier start or '0'..'9' (48..57).
IsIdentifierPart(ch) == IsIdentifierStart(ch) \/ (ch >= 48 /\ ch <= 57)

\* The characters asked about: U+0000..MaxChar and the code points next to
\* the ends of the planes and of the surrogates.
DialectChars ==
  (0..MaxChar) \cup {55295, 57344, 65534, 65535, 65536, 65537, 131072, 1114111}

InitDialect ==
  /\ IdleQuery /\ IdleCodec /\ IdleScan /\ IdleFrame /\ IdleSend
  /\ dialectCh \in DialectChars
  /\ dialectMethod = ""
  /\ dialectAnswer = FALSE

\* One call of method m, which answers a.
DialectCall(m, a) ==
  /\ dialectMethod = ""
  /\ dialectMethod' = m
  /\ dialectAnswer' = a
  /\ UNCHANGED <<queryVars, codecVars, scanVars, frameVars, sendVars, dialectCh>>

IsDelimitedIdentifierStartCall ==
  DialectCall("is_delimited_identifier_start", IsDelimitedIdentifierStart(dialectCh))

IsIdentifierStartCall ==
  DialectCall("is_identifier_start", IsIdentifierStart(dialectCh))

IsIdentifierPartCall ==
  DialectCall("is_identifier_part", IsIdentifierPart(dialectCh))

NextDialect ==
  \/ IsDelimitedIdentifierStartCall
  \/ IsIdentifierStartCall
  \/ IsIdentifierPartCall

SpecDialect == InitDialect /\ [][NextDialect]_vars

\* The ASCII letters, underscore and '$'; the ASCII digits.
AsciiWordChar(ch) ==
  (ch >= 97 /\ ch <= 122) \/ (ch >= 65 /\ ch <= 90) \/ ch = 95 \/ ch = 36
AsciiDigit(ch) == ch >= 48 /\ ch <= 57

\* Both quote characters, and no other, start a delimited identifier.
QuotesDelimit ==
  dialectMethod = "is_delimited_identifier_start" =>
    (dialectAnswer <=> dialectCh \in {34, 96})

\* The characters an identifier consists of, given which code points
\* outside ASCII are among them; its first character is not a digit.
IdentifierChars(extended(_)) ==
  /\ dialectMethod = "is_identifier_part" =>
       (dialectAnswer <=> (AsciiWordChar(dialectCh) \/ AsciiDigit(dialectCh)
                             \/ extended(dialectCh)))
  /\ dialectMethod = "is_identifier_start" =>
       (dialectAnswer <=> (AsciiWordChar(dialectCh) \/ extended(dialectCh)))

\* C25 as stated: the identifier characters are the ASCII letters, digits,
\* underscore, '$' and every code point >= U+0080; back-tick and double
\* quote start a delimited identifier.
C25_EveryCodePointFrom80 ==
  /\ IdentifierChars(LAMBDA ch : ch >= 128)
  /\ QuotesDelimit

\* C25 amended: the identifier characters are the ASCII letters, digits
\* (not as the first character), underscore, '$' and the code points
\* U+0080..U+FFFF; back-tick and double quote start a delimited identifier.
C25_BasicPlaneOnly ==
  /\ IdentifierChars(LAMBDA ch : ch >= 128 /\ ch <= 65535)
  /\ QuotesDelimit

C25_Witness ==
  /\ dialectMethod = "is_identifier_part"
  /\ dialectCh = 65536
  /\ ~dialectAnswer

\* ------------------------------------- coverage of distribute_to_workers
\* distribute_to_workers returned its worker list.
Distributed == pc \in {"assigned", "reassigned"}

\* Partition p is listed, by id, for at least one returned worker.
ListedForSomeWorker(p) ==
  \E w \in DOMAIN partitions :
    \E j \in DOMAIN partitions[w].filters : partitions[w].filters[j].id = p.id

\* C26: every partition of the snapshots passed to distribute_to_workers is
\* listed, by id, for at least one returned worker, in the ordinary and in
\* the multi regime, whether its multi-partition is a leaf or not.
C26_EveryPartitionListed ==
  Distributed =>
    \A i \in DOMAIN AllSnapshotPartitions :
      ListedForSomeWorker(AllSnapshotPartitions[i])

\* ------------------ from execute to the scan of the worker-side table
\* is_sorted_by_key(|(id, _)| id)
IsSortedByKey(list) ==
  \A i \in 1..(Len(list) - 1) : list[i].id <= list[i + 1].id

\* to_worker_table: a clone of self with the three fields replaced.
ToWorkerTable(self, names, ids, batches_of) ==
  [self EXCEPT !.remote_to_local_names = names,
               !.worker_partition_ids = ids,
               !.chunk_id_to_record_batches = batches_of]

\* The (id, range) lists of a worker: up to MaxFilters entries in any
\* order, ids repeated, ids of other tables' partitions among them.
BoundLists ==
  UNION {[1..n -> [id : 1..(MaxScanParts + 1),
                   range : {DefaultRange, [start |-> None, end |-> 1]}]] :
         n \in 1..MaxFilters}

\* The partitions of the table, each with a file.
FilePartitions ==
  {[i \in 1..Cardinality(ids) |->
      [id |-> SetToSeq(ids)[i], has_file |-> TRUE, chunks |-> <<>>]] :
     ids \in SUBSET (1..MaxScanParts)}

\* The router's ClusterSendExec with one worker, and the table of the plan
\* as CubeTable::try_new leaves it.
InitBind ==
  /\ config = [workers |-> <<WorkerName(1)>>]
  /\ tree = <<>> /\ snapshots = <<>> /\ logical = <<>> /\ nodes = <<>>
  /\ partitions2 = <<>>
  /\ pc = "built"
  /\ IdleFilters /\ IdleWorker
  /\ IdleCodec /\ IdleFrame /\ IdleSend /\ IdleDialect
  /\ useStreaming = FALSE
  /\ \E fl \in BoundLists : partitions = <<[node |-> SortedWorkers[1], filters |-> fl]>>
  /\ calls = <<IdleCall>>
  /\ sent = <<<<>>>>
  /\ \E parts \in FilePartitions :
       /\ cubeTable = [index_snapshot |-> PlainSnapshot(parts),
                       remote_to_local_names |-> {},
                       worker_partition_ids |-> <<>>,
                       chunk_id_to_record_batches |-> <<>>]
       /\ storage = [f \in {LocalPath(q) : q \in RemotePaths(parts)} |-> <<>>]
  /\ scanProjection = Nothing
  /\ spc = "router"
  /\ scanResult = <<>> /\ scanRows = <<>> /\ scanHints = <<>>

\* The worker builds its table from the list bound into the plan it was
\* sent; the assertion is compiled into debug builds only.
ToWorkerTableCall ==
  /\ spc = "router"
  /\ sent[1] # <<>>
  /\ LET ids == sent[1][1].plan.partition_ids_to_execute
     IN \E debug \in BOOLEAN :
          IF debug /\ ~IsSortedByKey(ids)
            THEN /\ scanResult' = ScanPanic("assertion failed")
                 /\ spc' = "failed"
                 /\ UNCHANGED cubeTable
            ELSE /\ cubeTable' = ToWorkerTable(cubeTable,
                                   RemotePaths(cubeTable.index_snapshot.partitions),
                                   ids, <<>>)
                 /\ spc' = "new"
                 /\ UNCHANGED scanResult
  /\ UNCHANGED <<storage, scanProjection, scanRows, scanHints>>
  /\ UNCHANGED <<queryVars, codecVars, frameVars, sendVars, dialectVars>>

NextBind ==
  \/ ExecuteCall(1, 1)
  \/ ToWorkerTableCall
  \/ ScanCall

SpecBind == InitBind /\ [][NextBind]_vars

\* The ids the router listed for the worker.
ListedIds == {partitions[1].filters[j].id : j \in DOMAIN partitions[1].filters}

\* C27: the list execute binds into the plan is sorted by partition id
\* without duplicates, so the assertion of to_worker_table holds, and the
\* scan of the worker-side table reads the file of a partition of the
\* snapshot exactly once, under the filter bound for its id, when the router
\* listed its id for the worker (once or several times) and not at all
\* when it did not.
C27_ListedIffRead ==
  /\ sent[1] # <<>> =>
       \A j, k \in DOMAIN Bound(1) : j < k => Bound(1)[j].id < Bound(1)[k].id
  /\ spc \notin {"router", "new"} =>
       /\ Scanned
       /\ cubeTable.worker_partition_ids = Bound(1)
       /\ \A i \in DOMAIN cubeTable.index_snapshot.partitions :
            LET part == cubeTable.index_snapshot.partitions[i]
            IN ReadersUnder(part.id, LAMBDA src : IsFileReader(src, part))
                 = IF part.id \in ListedIds THEN 1 ELSE 0
       /\ Len(SubPlans)
            = Cardinality({i \in DOMAIN cubeTable.index_snapshot.partitions :
                             cubeTable.index_snapshot.partitions[i].id \in ListedIds})

C27_Witness ==
  /\ spc = "planned"
  /\ Len(partitions[1].filters) = 3
  /\ partitions[1].filters[1].id = 2
  /\ partitions[1].filters[2].id = 3
  /\ partitions[1].filters[3].id = 2
  /\ partitions[1].filters[1].range # partitions[1].filters[3].range
  /\ Len(cubeTable.index_snapshot.partitions) = 2
  /\ Len(SubPlans) = 1
  /\ Len(Unprojected(SubPlans[1]).args.filter.or_filters) = 2

\* -------------------------------------- the slices of regroup_batches
\* The loops of regroup_batches are sequential code: a step that can be
\* taken is taken.
SpecWorkerLive == InitWorker /\ [][NextWorker]_vars /\ WF_vars(NextWorker)

\* ceil(r / n)
CeilDiv(r, n) == (r + n - 1) \div n

\* Rows (k - 1) n + 1 .. min(k n, r) of batch b of r rows, for
\* k = 1 .. ceil(r / n): consecutive row ranges of b, all of n rows except
\* possibly the last.
SlicesOf(b, n) ==
  [k \in 1..CeilDiv(NumRows(b), n) |->
     [schema |-> b.schema,
      columns |-> [c \in DOMAIN b.columns |->
                     SubSeq(b.columns[c], (k - 1) * n + 1, Min(k * n, NumRows(b)))]]]

\* The output is the slices of the first input batch, then those of the
\* second, and so on; none of them is empty.
SlicedPerBatch ==
  wpc = "done" =>
    /\ workerResult.batches = Flatten([i \in DOMAIN batches |-> SlicesOf(batches[i], max_rows)])
    /\ \A i \in DOMAIN workerResult.batches : NumRows(workerResult.batches[i]) > 0

\* C28: for max_rows >= 1 regroup_batches emits for each input batch of r
\* rows exactly ceil(r / max_rows) consecutive batches, contiguous row
\* ranges of that batch of max_rows rows except possibly the last, never a
\* batch of zero rows (a zero-row input batch leaves no output); every
\* slice moves the row cursor forward, and the loop ends.
C28_SlicesAndTermination ==
  /\ []SlicedPerBatch
  /\ [][RegroupSlice => row' > row]_vars
  /\ (wpc = "regroup") ~> (wpc = "done")

C28_Witness ==
  /\ wpc = "done"
  /\ max_rows = 3
  /\ Len(batches) = 2
  /\ NumRows(batches[1]) = 0
  /\ NumRows(batches[2]) = 7
  /\ Sizes(workerResult.batches) = <<3, 3, 1>>

====
